---- MODULE Spec2Model ----
(***************************************************************************)
(* A model of doc/latex2pdf.py: the loop of main() that reruns pdflatex,   *)
(* bibtex and makeindex until nothing asks for another run, together with  *)
(* the helpers it calls (getauxinfo, getmodifiedaux, biboutofdate,         *)
(* ErrorChecker, CitationIndex).                                           *)
(*                                                                         *)
(* Files are modelled by what the script reads from them.  An aux file is  *)
(* [exists, mtime, bibdata, slides, body]: bibdata are the names of its    *)
(* \bibdata directive, slides the number of its \inserttotalframenumber    *)
(* line ("None" when it has none) and body everything else.  Timestamps    *)
(* are integers; -inf and +inf are NegInf and PosInf.                      *)
(***************************************************************************)
EXTENDS Integers, Sequences, FiniteSets, TLC

VARIABLES
    options,            \* the parsed command line (main, lines 679-706)
    doc,                \* what the document given on the command line uses
    pc,                 \* position of main() in its code
    runcount,           \* loop variable of "for runcount in range(1, maxruns + 1)"
    keepgoing,
    auxinfo,
    oldauxinfo,
    indexfiles,
    beamer_numslides,
    logchecker,         \* the rule table of the global ErrorChecker
    loopvar,            \* position in the bibtex loop or in the index loop
    running,            \* subprocesses started and not yet waited for
    now,                \* the clock that stamps written files
    auxfs,              \* the aux files of the build directory
    logfile,            \* the .log file pdflatex writes
    bblfile,            \* the .bbl file beside every aux file
    idxin,              \* the index input files (.idx, .ain, .ctx)
    idxout,             \* the compiled indices (.ind, .and, .cnd)
    pdf,                \* the rendered pdf
    outcome,            \* how main() ended
    hist,               \* history of the build, kept for the properties
    fn                  \* state of the helper-function specifications

vars == <<options, doc, pc, runcount, keepgoing, auxinfo, oldauxinfo,
          indexfiles, beamer_numslides, logchecker, loopvar, running, now,
          auxfs, logfile, bblfile, idxin, idxout, pdf, outcome, hist, fn>>

----------------------------------------------------------------------------
(* Bounds of the model. *)

\* largest --max-runs tried
MaxMaxRuns == 4

\* largest --min-runs tried
MaxMinRuns == 2

\* the largest --max-runs tried on a document that is not plain
MaxFeatureRuns == 2

\* mtime of the .tex source; the files of an earlier build are older, the
\* files a run writes are newer
TexMtime == 2

\* -float("inf") and float("inf"); every finite timestamp lies between them
NegInf == -1

PosInf == 1000

\* Python values of mixed type: None, True, False, an int, an md5 digest
None == [tag |-> "None"]

PyTrue == [tag |-> "True"]

PyFalse == [tag |-> "False"]

PyBool(b) == IF b THEN PyTrue ELSE PyFalse

PyInt(n) == [tag |-> "int", val |-> n]

\* truth value of "x if md5 else y" for the values md5 takes
Truthy(x) == x.tag \notin {"None", "False"}

----------------------------------------------------------------------------
(* Python dicts keep insertion order: a dict is a sequence of [k, v]. *)

Range(s) == {s[i] : i \in 1..Len(s)}

Keys(d) == [i \in 1..Len(d) |-> d[i].k]

KeySet(d) == {d[i].k : i \in 1..Len(d)}

HasKey(d, key) == \E i \in 1..Len(d) : d[i].k = key

Get(d, key) == d[CHOOSE i \in 1..Len(d) : d[i].k = key].v

\* d[key] = val
Put(d, key, val) ==
    IF HasKey(d, key)
    THEN [i \in 1..Len(d) |-> IF d[i].k = key THEN [k |-> key, v |-> val]
                                               ELSE d[i]]
    ELSE Append(d, [k |-> key, v |-> val])

----------------------------------------------------------------------------
(* Aux files. *)

AuxMain == "main.aux"

AuxSub == "sub.aux"

AuxPaths == {AuxMain, AuxSub}

NoFile == [exists |-> FALSE, mtime |-> 0, bibdata |-> <<>>, slides |-> None,
           body |-> 0]

\* AuxFile = namedtuple("AuxFile", [relpath, exists, timestamp, bibdata, md5])
AuxFile(relpath, exists, timestamp, bibdata, md5) ==
    [relpath |-> relpath, exists |-> exists, timestamp |-> timestamp,
     bibdata |-> bibdata, md5 |-> md5]

\* the digest of a file's whole content
md5sum(file) == [tag |-> "md5", bibdata |-> file.bibdata,
                 slides |-> file.slides, body |-> file.body]

\* every name of the \bibdata directive, with ".bib" appended
getbibdata(file) ==
    [i \in 1..Len(file.bibdata) |-> [stem |-> file.bibdata[i], ext |-> "bib"]]

\* a mutant of getauxinfoFrom: a file that does not exist is read like one
\* that does
RECURSIVE getauxinfoFromRead(_, _, _, _, _)
getauxinfoFromRead(files, i, fs, md5, acc) ==
    IF i > Len(files) THEN acc
    ELSE LET f == files[i]
             newmd5 == IF Truthy(md5) THEN md5sum(fs[f]) ELSE None
             aux == AuxFile(f, fs[f].exists, fs[f].mtime, getbibdata(fs[f]),
                            newmd5)
         IN  getauxinfoFromRead(files, i + 1, fs, newmd5, Put(acc, f, aux))

\* the script's md5 argument is overwritten by the digest or by None of the
\* file just handled (line 161, line 165), and is read again for the next file
RECURSIVE getauxinfoFrom(_, _, _, _, _)
getauxinfoFrom(files, i, fs, md5, acc) ==
    IF i > Len(files) THEN acc
    ELSE LET f == files[i]
             exists == fs[f].exists
             newmd5 == IF exists
                       THEN (IF Truthy(md5) THEN md5sum(fs[f]) ELSE None)
                       ELSE None
             aux == IF exists
                    THEN AuxFile(f, TRUE, fs[f].mtime, getbibdata(fs[f]), newmd5)
                    ELSE AuxFile(f, FALSE, NegInf, <<>>, None)
         IN  getauxinfoFrom(files, i + 1, fs, newmd5, Put(acc, f, aux))

getauxinfo(files, fs, md5) == getauxinfoFrom(files, 1, fs, PyBool(md5), <<>>)

\* a mutant of ischanged: a file that does not exist counts as changed
ischangedMissing(old, f, aux, md5) ==
    \/ ~aux.exists
    \/ ~HasKey(old, f)
    \/ aux.timestamp > Get(old, f).timestamp
    \/ (md5 /\ aux.md5 # Get(old, f).md5)

\* a mutant of ischanged: the timestamps are compared with >= instead of >
ischangedGe(old, f, aux, md5) ==
    \/ ~HasKey(old, f)
    \/ aux.timestamp >= Get(old, f).timestamp
    \/ (md5 /\ aux.md5 # Get(old, f).md5)

ischanged(old, f, aux, md5) ==
    \/ ~HasKey(old, f)
    \/ aux.timestamp > Get(old, f).timestamp
    \/ (md5 /\ aux.md5 # Get(old, f).md5)

RECURSIVE getmodifiedauxFrom(_, _, _, _, _)
getmodifiedauxFrom(old, new, md5, i, changed) ==
    IF i > Len(new) THEN changed
    ELSE getmodifiedauxFrom(old, new, md5, i + 1,
             IF ischanged(old, new[i].k, new[i].v, md5)
             THEN Put(changed, new[i].k, new[i].v) ELSE changed)

getmodifiedaux(old, new, md5) == getmodifiedauxFrom(old, new, md5, 1, <<>>)

----------------------------------------------------------------------------
(* The log file and the ErrorChecker.  A log is a sequence of lines; a     *)
(* regex is modelled by the set of lines it matches.                       *)

LnText == "some text"

LnRerun == "LaTeX Warning: Label(s) may have changed. Rerun to get cross-references right."

LnUndefRef == "LaTeX Warning: Reference `x' on page 1 undefined"

LnUndefCite == "LaTeX Warning: Citation `x' on page 1 undefined"

LnUndef == "LaTeX Warning: There were undefined references."

LnError == "! LaTeX Error: something"

LnUcs == "! Undefined control sequence."

LnAuxSub == "(./sub.aux)"

LnIdx == "Writing index file main.idx"

LnAin == "Writing index file main.ain"

LnCtx == "Writing index file main.ctx"

\* next(log, "") past the end of the file
LnEmpty == ""

Levels == {"ignore", "warning", "error", "fatal"}

\* level=None, among the strings a level is
NoLevel == "None"

Check(regex, level, lines) == [regex |-> regex, level |-> level, lines |-> lines]

PyStr(s) == [tag |-> "str", val |-> s]

\* a mutant of add: a name in use is taken again
addOverwrite(checks, defaultlevel, regex, level, lines, name) ==
    IF name # None /\ name.tag # "str" THEN [raised |-> "TypeError", checks |-> checks]
    ELSE [raised |-> "",
          checks |-> Put(checks, IF name = None THEN PyInt(Len(checks)) ELSE name,
                         Check(regex, IF level = NoLevel THEN defaultlevel ELSE level,
                               lines))]

\* ErrorChecker.add: the new table, or the exception raised
add(checks, defaultlevel, regex, level, lines, name) ==
    IF name # None /\ name.tag # "str" THEN [raised |-> "TypeError", checks |-> checks]
    ELSE IF name # None /\ HasKey(checks, name)
         THEN [raised |-> "ValueError", checks |-> checks]
    ELSE [raised |-> "",
          checks |-> Put(checks, IF name = None THEN PyInt(Len(checks)) ELSE name,
                         Check(regex, IF level = NoLevel THEN defaultlevel ELSE level,
                               lines))]

\* ErrorChecker.change with lines=None
change(checks, name, level) ==
    IF ~HasKey(checks, name) THEN [raised |-> "KeyError", checks |-> checks]
    ELSE [raised |-> "",
          checks |-> Put(checks, name,
                         Check(Get(checks, name).regex,
                               IF level = NoLevel THEN Get(checks, name).level ELSE level,
                               Get(checks, name).lines))]

\* a mutant of extralines: nothing is read past the end of the file
RECURSIVE extralinesToEnd(_, _, _)
extralinesToEnd(log, pos, n) ==
    IF n <= 0 \/ pos > Len(log) THEN <<>>
    ELSE <<log[pos]>> \o extralinesToEnd(log, pos + 1, n - 1)

\* the lines "for n in range(check.lines - 1): next(log, "")" reads from pos on
RECURSIVE extralines(_, _, _)
extralines(log, pos, n) ==
    IF n <= 0 THEN <<>>
    ELSE <<IF pos <= Len(log) THEN log[pos] ELSE LnEmpty>>
         \o extralines(log, pos + 1, n - 1)

\* the inner loop "for check in self.__checks.values()" on the line at pos;
\* next is the position the file iterator stands at
RECURSIVE searchline(_, _, _, _, _, _)
searchline(checks, log, pos, next, j, messages) ==
    IF j > Len(checks) THEN [next |-> next, messages |-> messages]
    ELSE LET check == checks[j].v
         IN  IF log[pos] \in check.regex
             THEN LET match == <<log[pos]>> \o extralines(log, next, check.lines - 1)
                      nextpos == IF next + (check.lines - 1) > Len(log) + 1
                                 THEN Len(log) + 1
                                 ELSE next + (check.lines - 1)
                  IN  searchline(checks, log, pos, nextpos, j + 1,
                          [messages EXCEPT ![check.level] = Append(@, match)])
             ELSE searchline(checks, log, pos, next, j + 1, messages)

\* a mutant of searchFrom: the lines a match has read are tested as well
RECURSIVE searchFromEvery(_, _, _, _)
searchFromEvery(checks, log, pos, messages) ==
    IF pos > Len(log) THEN messages
    ELSE LET r == searchline(checks, log, pos, pos + 1, 1, messages)
         IN  searchFromEvery(checks, log, pos + 1, r.messages)

\* "for line in log" (line 445) from the line at pos on; the loop goes on
\* with the line the file iterator stands at
RECURSIVE searchFrom(_, _, _, _)
searchFrom(checks, log, pos, messages) ==
    IF pos > Len(log) THEN messages
    ELSE LET r == searchline(checks, log, pos, pos + 1, 1, messages)
         IN  searchFrom(checks, log, r.next, r.messages)

\* ErrorChecker.search; a level without messages maps to the empty list
search(checks, log) == searchFrom(checks, log, 1, [l \in Levels |-> <<>>])

RECURSIVE addall(_, _, _)
addall(checks, defaultlevel, rules) ==
    IF rules = <<>> THEN checks
    ELSE addall(add(checks, defaultlevel, rules[1].regex, rules[1].level,
                    rules[1].lines, rules[1].name).checks,
                defaultlevel, Tail(rules))

Rule(regex, level, lines, name) ==
    [regex |-> regex, level |-> level, lines |-> lines, name |-> name]

\* logchecker as built at import time (lines 459-473); the regexes that no
\* line of the model matches have the empty set
logcheckerInit ==
    addall(<<>>, "warning",
        << Rule({LnRerun}, NoLevel, 1, None),
           Rule({}, NoLevel, 1, None),
           Rule({LnUndefCite}, NoLevel, 1, PyStr("undefcite")),
           Rule({LnUndefRef}, NoLevel, 1, PyStr("undefref")),
           Rule({LnUndef}, NoLevel, 1, PyStr("undef")),
           Rule({}, NoLevel, 1, None),
           Rule({}, NoLevel, 1, None),
           Rule({LnError}, "fatal", 1, None),
           Rule({LnUcs}, "fatal", 2, None),
           Rule({}, "fatal", 1, None),
           Rule({}, "fatal", 5, None),
           Rule({}, "fatal", 1, None) >>)

\* getauxfromlog: the aux files a log names that exist; the script returns
\* list(set), here in the order main, sub
getauxfromlog(log, fs) ==
    IF LnAuxSub \in Range(log) /\ fs[AuxSub].exists THEN <<AuxSub>> ELSE <<>>

IndexTypes == {"subject", "author", "citation"}

\* the table of getindexfiles (lines 176-181): name |-> (input ext, output ext)
indexes ==
    [subject |-> <<"idx", "ind">>, author |-> <<"ain", "and">>,
     citation |-> <<"ctx", "cnd">>]

LineIndex(line) ==
    IF line = LnIdx THEN "subject"
    ELSE IF line = LnAin THEN "author"
    ELSE IF line = LnCtx THEN "citation" ELSE ""

RECURSIVE getindexfilesFrom(_, _, _)
getindexfilesFrom(log, i, found) ==
    IF i > Len(log) THEN found
    ELSE getindexfilesFrom(log, i + 1,
             IF LineIndex(log[i]) # ""
             THEN Put(found, LineIndex(log[i]), indexes[LineIndex(log[i])])
             ELSE found)

getindexfiles(log) == getindexfilesFrom(log, 1, <<>>)

\* checktotalslides: None without the file or without a frame number
checktotalslides(file) == IF file.exists THEN file.slides ELSE None

----------------------------------------------------------------------------
(* Other files: [exists, mtime]. *)

File(exists, mtime) == [exists |-> exists, mtime |-> mtime]

Missing == File(FALSE, 0)

\* getmtime: os.path.getmtime, or na when the file does not exist
getmtime(file, na) == IF file.exists THEN file.mtime ELSE na

RECURSIVE safemax(_, _)
safemax(x, empty) ==
    IF Len(x) = 0 THEN empty
    ELSE IF Len(x) = 1 THEN x[1]
    ELSE LET m == safemax(Tail(x), empty) IN IF x[1] >= m THEN x[1] ELSE m

RECURSIVE safemin(_, _)
safemin(x, empty) ==
    IF Len(x) = 0 THEN empty
    ELSE IF Len(x) = 1 THEN x[1]
    ELSE LET m == safemin(Tail(x), empty) IN IF x[1] <= m THEN x[1] ELSE m

\* every bibdata entry of every aux file of auxinfo, in order
RECURSIVE allbib(_, _)
allbib(info, i) ==
    IF i > Len(info) THEN <<>> ELSE info[i].v.bibdata \o allbib(info, i + 1)

IsBlx(b) == b.stem = "main-blx"

\* a mutant of biboutofdate: a missing .bbl file counts as infinitely old
biboutofdateMissingOld(info, includeblx, bibtime, bbl) ==
    LET bib == IF includeblx THEN allbib(info, 1)
               ELSE SelectSeq(allbib(info, 1), LAMBDA b : ~IsBlx(b))
    IN  IF Len(bib) = 0 THEN FALSE
        ELSE LET bibtimes == [i \in 1..Len(bib) |-> bibtime]
                 newestbib == safemax(bibtimes, NegInf)
                 bbltimes == [i \in 1..Len(info) |-> getmtime(bbl[info[i].k], NegInf)]
                 oldestbbl == safemin(bbltimes, PosInf)
             IN  newestbib >= oldestbbl

\* biboutofdate, given the mtime of every bib file kpsewhich resolved and
\* of the .bbl file beside every aux file of auxinfo
biboutofdate(info, includeblx, bibtime, bbl) ==
    LET bib == IF includeblx THEN allbib(info, 1)
               ELSE SelectSeq(allbib(info, 1), LAMBDA b : ~IsBlx(b))
    IN  IF Len(bib) = 0 THEN FALSE
        ELSE LET bibtimes == [i \in 1..Len(bib) |-> bibtime]
                 newestbib == safemax(bibtimes, NegInf)
                 bbltimes == [i \in 1..Len(info) |-> getmtime(bbl[info[i].k], PosInf)]
                 oldestbbl == safemin(bbltimes, PosInf)
             IN  newestbib >= oldestbbl

\* whether biboutofdate starts kpsewhich: only with a bib file to look for
needskpsewhich(info, includeblx) ==
    Len(IF includeblx THEN allbib(info, 1)
        ELSE SelectSeq(allbib(info, 1), LAMBDA b : ~IsBlx(b))) > 0

----------------------------------------------------------------------------
(* Index input files and CitationIndex.  A file is a sequence of lines. *)

\* A line is the sequence of its tokens; the tokens are the delimiters the
\* regular expressions of CitationIndex read and pieces of other text.

\* the line LaTeX writes into the .ctx file for one citation
RawEntry(author, year, page) ==
    <<"\\indexentry", " ", "{", "{">> \o author \o <<"}", "\\ ">> \o year
        \o <<"}", "{">> \o page \o <<"}">>

LnEntry == RawEntry(<<"Doe">>, <<"2000">>, <<"1">>)

\* a line that is no entry
LnJunk == <<"\\junk">>

NoIndex == [exists |-> FALSE, lines |-> <<>>]

IndexFile(lines) == [exists |-> TRUE, lines |-> lines]

\* pat is in line at position i
IsAt(line, i, pat) ==
    /\ i + Len(pat) - 1 <= Len(line)
    /\ SubSeq(line, i, i + Len(pat) - 1) = pat

Least(S) == CHOOSE x \in S : \A y \in S : x <= y

NoMatch == [matched |-> FALSE, author |-> <<>>, year |-> <<>>, page |-> <<>>]

\* entryre.search(line) (lines 577-578, 641):
\*   \\indexentry \{\{(?P<author>.*?)\}\\ (?P<year>.*?)\}\{(?P<page>.*?)\}
\* the leftmost match, each group as short as a match allows
entryre(line) ==
    LET n == Len(line)
        pageends(k) == {l \in (k + 2)..n : line[l] = "}"}
        yearends(j) == {k \in (j + 2)..n :
                          IsAt(line, k, <<"}", "{">>) /\ pageends(k) # {}}
        authorends(s) == {j \in (s + 4)..n :
                            IsAt(line, j, <<"}", "\\ ">>) /\ yearends(j) # {}}
        starts == {s \in 1..n :
                     /\ IsAt(line, s, <<"\\indexentry", " ", "{", "{">>)
                     /\ authorends(s) # {}}
    IN  IF starts = {} THEN NoMatch
        ELSE LET s == Least(starts)
                 j == Least(authorends(s))
                 k == Least(yearends(j))
                 l == Least(pageends(k))
             IN  [matched |-> TRUE,
                  author |-> SubSeq(line, s + 4, j - 1),
                  year |-> SubSeq(line, j + 2, k - 1),
                  page |-> SubSeq(line, k + 2, l - 1)]

\* match is not None (line 642)
entrymatch(line) == entryre(line).matched

\* the number of tokens " " that s begins with
RECURSIVE spaces(_)
spaces(s) == IF s # <<>> /\ Head(s) = " " THEN 1 + spaces(Tail(s)) ELSE 0

\* s without its first n tokens
Drop(s, n) == SubSeq(s, n + 1, Len(s))

\* spacebeforere.sub("{", s) (lines 582, 605): \s+\} becomes {
RECURSIVE spacebeforesub(_)
spacebeforesub(s) ==
    IF s = <<>> THEN <<>>
    ELSE IF spaces(s) > 0
    THEN IF spaces(s) < Len(s) /\ s[spaces(s) + 1] = "}"
         THEN <<"{">> \o spacebeforesub(Drop(s, spaces(s) + 1))
         ELSE SubSeq(s, 1, spaces(s)) \o spacebeforesub(Drop(s, spaces(s)))
    ELSE <<Head(s)>> \o spacebeforesub(Tail(s))

\* spaceafterre.sub("}", s) (lines 581, 606): \{\s+ becomes }
RECURSIVE spaceaftersub(_)
spaceaftersub(s) ==
    IF s = <<>> THEN <<>>
    ELSE IF Head(s) = "{" /\ spaces(Tail(s)) > 0
    THEN <<"}">> \o spaceaftersub(Drop(s, 1 + spaces(Tail(s))))
    ELSE <<Head(s)>> \o spaceaftersub(Tail(s))

\* nobracespace(s) (lines 601-607)
nobracespace(s) == spaceaftersub(spacebeforesub(s))

\* self.replacements (lines 586-599), a control sequence being one token
replacements ==
    << <<"\\OE", "OE">>, <<"\\aa", "a">>, <<"\\O", "O">>, <<"\\o", "o">>,
       <<"\\ss", "s">>, <<"\\ae", "ae">>, <<"\\AA", "A">>, <<"\\L", "L">>,
       <<"\\l", "l">>, <<"\\oe", "oe">>, <<"\\ae", "AE">>, <<"~", " ">> >>

\* for (find, repl) in self.replacements: name = name.replace(find, repl),
\* from pair i on (lines 618-619)
RECURSIVE replaceall(_, _)
replaceall(name, i) ==
    IF i > Len(replacements) THEN name
    ELSE replaceall([k \in 1..Len(name) |->
                        IF name[k] = replacements[i][1]
                        THEN replacements[i][2] ELSE name[k]], i + 1)

\* the tokens of a backslash and one more character that the model has
ControlTokens == {"\\'"}

\* tokenre.sub("", name) (lines 579, 620): \\[^ \{] ? is deleted
RECURSIVE tokensub(_)
tokensub(s) ==
    IF s = <<>> THEN <<>>
    ELSE IF Head(s) \in ControlTokens
    THEN tokensub(Drop(s, IF Len(s) > 1 /\ s[2] = " " THEN 2 ELSE 1))
    ELSE <<Head(s)>> \o tokensub(Tail(s))

\* the tokens made of characters of keeptext (line 584): letters, digits
\* and the space
keeptext ==
    {"Doe", "Roe", "2000", "a", "1", "iv", " ", "OE", "O", "o", "s", "ae",
     "A", "L", "l", "oe", "AE"}

\* keep(s) (lines 609-611)
keep(s) == s \in keeptext

\* str.upper of a token
Upper(s) ==
    CASE s = "Doe" -> "DOE" [] s = "Roe" -> "ROE" [] s = "a" -> "A"
      [] s = "iv" -> "IV" [] s = "o" -> "O" [] s = "s" -> "S"
      [] s = "ae" -> "AE" [] s = "l" -> "L" [] s = "oe" -> "OE"
      [] s = "filter object at 0x" -> "FILTER OBJECT AT 0X"
      [] s = "7f0a" -> "7F0A" [] s = "7f0b" -> "7F0B"
      [] OTHER -> s

\* name.upper() (line 622)
upper(name) == [k \in 1..Len(name) |-> Upper(name[k])]

\* the addresses a filter object may lie at
Addresses == {"7f0a", "7f0b"}

\* str(filter(self.keep, name)) (line 621): filter makes an iterator, which
\* str() does not run; str() names its type and the address addr it lies at
strfilter(name, addr) == <<"<", "filter object at 0x", addr, ">">>

\* purify(name) (lines 614-622); addr is the address of the filter object
purify(name, addr) ==
    upper(strfilter(tokensub(replaceall(nobracespace(name), 1)), addr))

\* a mutant of entry: the purified name and year are displayed as well
entryPurified(line, addr) ==
    LET m == entryre(line)
        nicekey == purify(m.author, addr) \o <<" ">> \o purify(m.year, addr)
    IN  <<"\\indexentry", "{">> \o nicekey \o <<"@">>
            \o <<"{">> \o purify(m.author, addr) \o <<"}", "\\ ">>
            \o purify(m.year, addr)
            \o <<"}", "{">> \o m.page \o <<"}">>

\* the entry written for a matching line (lines 643-651); addr is the
\* address of the filter objects, which the model takes to be one for the
\* calls of purify of one call of clean
entry(line, addr) ==
    LET m == entryre(line)
        name == m.author
        nicename == purify(name, addr)
        year == m.year
        niceyear == purify(year, addr)
        page == m.page
        key == <<"{">> \o name \o <<"}", "\\ ">> \o year
        nicekey == nicename \o <<" ">> \o niceyear
    IN  <<"\\indexentry", "{">> \o nicekey \o <<"@">> \o key
            \o <<"}", "{">> \o page \o <<"}">>

\* the entry citationindex.clean writes for LnEntry
LnCleaned(addr) == entry(LnEntry, addr)

\* the main loop of clean (lines 640-656) from line i on: what it has written
\* to outfile when it ends, and whether it ended by raise RuntimeError
RECURSIVE cleanloop(_, _, _, _)
cleanloop(lines, i, written, addr) ==
    IF i > Len(lines) THEN [raised |-> FALSE, written |-> written]
    ELSE IF entrymatch(lines[i])
    THEN cleanloop(lines, i + 1, Append(written, entry(lines[i], addr)), addr)
    ELSE [raised |-> TRUE, written |-> written]

\* a mutant of clean: a line that is no entry is dropped, nothing is raised
cleanSkip(infile, addr) ==
    [raised |-> FALSE,
     infile |-> IndexFile([i \in 1..Len(SelectSeq(infile.lines, entrymatch))
                              |-> entry(SelectSeq(infile.lines, entrymatch)[i],
                                        addr)])]

\* a mutant of clean: a line that is no entry is copied, nothing is raised
cleanCopy(infile, addr) ==
    [raised |-> FALSE,
     infile |-> IndexFile([i \in 1..Len(infile.lines) |->
                              IF entrymatch(infile.lines[i])
                              THEN entry(infile.lines[i], addr)
                              ELSE infile.lines[i]])]

\* CitationIndex.clean(infilename) with outfilename None: the input file
\* afterwards, and whether RuntimeError was raised.  The entries go to a
\* temporary file that is renamed to infilename (lines 663-665) after the
\* loop; a raise leaves the loop before.
clean(infile, addr) ==
    LET r == cleanloop(infile.lines, 1, <<>>, addr)
    IN  IF r.raised
        THEN [raised |-> TRUE, infile |-> infile]
        ELSE [raised |-> FALSE, infile |-> IndexFile(r.written)]

\* CitationIndex.clean(infilename, outfilename): the output file afterwards.
\* open(outfilename, "w") (line 634) empties the file, and leaving the with
\* block, by raise as well, closes it with the entries written so far.
cleanout(infile, addr) ==
    LET r == cleanloop(infile.lines, 1, <<>>, addr)
    IN  [raised |-> r.raised, outfile |-> IndexFile(r.written)]

----------------------------------------------------------------------------
(* The command line and the document. *)

\* What the document makes pdflatex write: a second aux file (\include), a
\* \bibdata directive, a frame count (beamer), one index.  bibmtime is the
\* mtime of its bib files.  A document of the model has one of these.
Documents ==
    {d \in [sub : BOOLEAN, bib : BOOLEAN, beamer : BOOLEAN,
            index : {"none", "subject", "author", "citation"},
            bibmtime : 0..(TexMtime - 1)] :
        /\ Cardinality({x \in {"sub", "bib", "beamer", "index"} :
               \/ (x = "sub" /\ d.sub) \/ (x = "bib" /\ d.bib)
               \/ (x = "beamer" /\ d.beamer)
               \/ (x = "index" /\ d.index # "none")}) <= 1
        /\ (~d.bib => d.bibmtime = 0)}

IsPlain(d) == ~d.sub /\ ~d.bib /\ ~d.beamer /\ d.index = "none"

\* The options main reads.  Long loops are tried on the plain document, an
\* option where the document has something it acts on, and the options no
\* property looks at stay at their defaults.
Options(d) ==
    [min_runs : 1..MaxMinRuns,
     max_runs : IF IsPlain(d) \/ d.beamer THEN 1..MaxMaxRuns
                ELSE 1..MaxFeatureRuns,
     paranoid : IF IsPlain(d) \/ d.sub THEN BOOLEAN ELSE {FALSE},
     ignore_cite_errors : IF IsPlain(d) THEN BOOLEAN ELSE {FALSE},
     keep_pdf_timestamp : IF IsPlain(d) THEN BOOLEAN ELSE {FALSE},
     recheck_aux : IF d.bib \/ d.beamer THEN BOOLEAN ELSE {FALSE},
     errordisplay : IF d.bib THEN BOOLEAN ELSE {TRUE},
     check_all_aux : {FALSE}, show_cite_errors : {FALSE},
     check_blx_timestamps : {FALSE}]

\* maxruns = options["max_runs"] + options["paranoid"]
maxruns == options.max_runs + (IF options.paranoid THEN 1 ELSE 0)

minruns == options.min_runs

\* a mutant of forrange: one run too many
forrangeOff(n) == 1..(n + 1)

\* range(1, maxruns + 1)
forrange(n) == 1..n

BibChoices == IF doc.bib THEN {<<>>, <<"a", "b">>, <<"b", "a">>} ELSE {<<>>}

SlideChoices == IF doc.beamer THEN {None, PyInt(1), PyInt(2)} ELSE {None}

\* the rest of aux file f; the script reads it through md5sum only, and it
\* varies in the file the document has last
Bodies(f) ==
    IF options.paranoid /\ (f = AuxSub \/ ~doc.sub) THEN {0, 1} ELSE {0}

\* what pdflatex may write into aux file f at time t
Written(f, t) ==
    IF f = AuxMain
    THEN [exists : {TRUE}, mtime : {t}, bibdata : BibChoices,
          slides : SlideChoices, body : Bodies(f)]
    ELSE IF doc.sub
         THEN [exists : {TRUE}, mtime : {t}, bibdata : {<<>>},
               slides : {None}, body : Bodies(f)]
         ELSE {}

\* what a pdflatex run may leave of aux file f: written anew, or, where
\* the document has a bibliography or a part that \includeonly may leave
\* out, as it was
AfterRun(f, t) ==
    Written(f, t)
    \cup (IF doc.sub \/ doc.bib \/ f # AuxMain THEN {auxfs[f]} ELSE {})

\* the messages of a pdflatex log; they vary on the plain document
LogMessages ==
    IF IsPlain(doc) THEN {<<>>, <<LnUndefRef>>} ELSE {<<>>}

LogAux == IF doc.sub THEN {<<>>, <<LnAuxSub>>} ELSE {<<>>}

LogIndex ==
    IF doc.index = "subject" THEN {<<>>, <<LnIdx>>}
    ELSE IF doc.index = "author" THEN {<<>>, <<LnAin>>}
    ELSE IF doc.index = "citation" THEN {<<>>, <<LnCtx>>}
    ELSE {<<>>}

\* os.listdir(fullbuilddir), the aux files of it
listdir(fs) ==
    (IF fs[AuxMain].exists THEN <<AuxMain>> ELSE <<>>)
    \o (IF fs[AuxSub].exists THEN <<AuxSub>> ELSE <<>>)

\* the content of an aux file, as md5sum reads it
Content(file) == IF file.exists THEN md5sum(file) ELSE None

----------------------------------------------------------------------------
(* main(): the state before the loop (lines 679-742). *)

NoFn == [spec |-> "main"]

HistInit ==
    [lastdecision |-> "none", \* keepgoing at the end of the last iteration
     failed |-> {},           \* tools that exited nonzero in this iteration
     started |-> {},          \* tools started in this iteration
     pdflatexruns |-> 0,      \* pdflatex runs waited for
     allclean |-> TRUE,       \* every pdflatex run: exit 0, no message
     allundefref |-> TRUE,    \* every pdflatex log: one undefined reference
     framesteady |-> TRUE,    \* no run after the first changed the frame count
     changed |-> {},          \* paranoid: tracked aux files whose content
                              \* the last pdflatex run changed
     corrupt |-> FALSE,       \* citationindex.clean met a line of no entry
     cleaned |-> {},          \* index types citationindex.clean was called
                              \* for in this iteration
     bibtexed |-> <<>>,       \* the aux files bibtex was started for in this
                              \* iteration, in order
     numslides0 |-> None,     \* beamer_numslides when the loop started
     newfiles |-> {},         \* the files of newauxinfo of the last run
     lastfiles |-> {},        \* the files of newauxinfo of the run before
     lastchanged |-> {},      \* the files of auxinfo when the last run began
     busy |-> FALSE,          \* main went on while a subprocess was running
     pdfrun |-> Missing]      \* the pdf as the last pdflatex run left it

AuxInit(d, f) ==
    IF f = AuxMain
    THEN {NoFile,
          [exists |-> TRUE, mtime |-> 0,
           bibdata |-> IF d.bib THEN <<"a", "b">> ELSE <<>>,
           slides |-> IF d.beamer THEN PyInt(1) ELSE None, body |-> 0]}
    ELSE IF d.sub
         THEN {NoFile, [exists |-> TRUE, mtime |-> 0, bibdata |-> <<>>,
                        slides |-> None, body |-> 0]}
         ELSE {NoFile}

\* the rule table when the loop starts (line 698)
logcheckerMain(show_cite_errors) ==
    change(logcheckerInit, PyStr("undefcite"),
           IF show_cite_errors THEN "error" ELSE "warning").checks

Init ==
    /\ doc \in Documents
    /\ options \in Options(doc)
    /\ auxfs \in {fs \in [AuxPaths -> UNION {AuxInit(doc, f) : f \in AuxPaths}] :
                     \A f \in AuxPaths : fs[f] \in AuxInit(doc, f)}
    \* log and pdf of an earlier build lie beside the main aux file
    /\ logfile = IF auxfs[AuxMain].exists
                 THEN [exists |-> TRUE,
                       lines |-> IF auxfs[AuxSub].exists THEN <<LnAuxSub>> ELSE <<>>]
                 ELSE [exists |-> FALSE, lines |-> <<>>]
    /\ pdf = IF auxfs[AuxMain].exists THEN File(TRUE, 0) ELSE Missing
    /\ bblfile \in {b \in [AuxPaths -> {Missing, File(TRUE, TexMtime - 1)}] :
                       /\ b[AuxSub] = Missing
                       /\ (~doc.bib => b[AuxMain] = Missing)}
    /\ idxin = [e \in {"idx", "ain", "ctx"} |-> NoIndex]
    /\ idxout \in {o \in [{"ind", "and", "cnd"} ->
                             {Missing, File(TRUE, TexMtime)}] :
                      \A e \in {"ind", "and", "cnd"} :
                          (doc.index = "none" \/ indexes[doc.index][2] # e)
                              => o[e] = Missing}
    /\ now = TexMtime
    /\ pc = "for"
    /\ runcount = 0
    /\ keepgoing = TRUE
    /\ auxinfo = <<>>
    /\ oldauxinfo = <<>>
    /\ indexfiles = <<>>
    /\ beamer_numslides = checktotalslides(auxfs[AuxMain])
    /\ logchecker = logcheckerMain(options.show_cite_errors)
    /\ loopvar = 0
    /\ running = <<>>
    /\ outcome = "running"
    /\ hist = [HistInit EXCEPT !.pdfrun = pdf,
                                !.numslides0 = checktotalslides(auxfs[AuxMain])]
    /\ fn = NoFn

envvars == <<now, auxfs, logfile, bblfile, idxin, idxout, pdf>>

cfgvars == <<options, doc, fn>>

\* subprocess.Popen: one more process runs
Popen(r, proc) == Append(r, proc)

\* a mutant of Waited: the script goes on without waiting
WaitedNot(r, proc) == r

\* Popen.wait, Popen.communicate: the process has ended
Waited(r, proc) == SelectSeq(r, LAMBDA x : x # proc)

Started(h, proc) == [h EXCEPT !.started = @ \cup {proc}]

Exited(h, proc, rc) == IF rc # 0 THEN [h EXCEPT !.failed = @ \cup {proc}] ELSE h

\* main does something of its own, or starts a process, while r runs
Busy(h, r) == [h EXCEPT !.busy = @ \/ r # <<>>]


----------------------------------------------------------------------------
(* main(): the loop (lines 743-913). *)

\* for runcount in range(1, maxruns + 1)
ForHead ==
    /\ pc = "for"
    /\ IF runcount + 1 \in forrange(maxruns)
       THEN /\ runcount' = runcount + 1
            /\ pc' = "bibtex"
            /\ loopvar' = 1
            /\ hist' = [hist EXCEPT !.failed = {}, !.started = {},
                                    !.cleaned = {}, !.bibtexed = <<>>]
       ELSE /\ pc' = "finish"
            /\ UNCHANGED <<runcount, loopvar, hist>>
    /\ UNCHANGED <<keepgoing, auxinfo, oldauxinfo, indexfiles, beamer_numslides,
                   logchecker, running, outcome>>
    /\ UNCHANGED envvars
    /\ UNCHANGED cfgvars

\* a mutant of NextBib: bibtex is run for every item of auxinfo
NextBibAll(i) == i..Len(auxinfo)

\* the items of auxinfo from position i on that have bibdata (line 746)
NextBib(i) == {j \in i..Len(auxinfo) : Len(auxinfo[j].v.bibdata) > 0}

\* bibtex = subprocess.Popen(["bibtex", a.relpath], ...)
BibtexPopen ==
    /\ pc = "bibtex"
    /\ NextBib(loopvar) # {}
    /\ loopvar' = CHOOSE j \in NextBib(loopvar) : \A k \in NextBib(loopvar) : j <= k
    /\ hist' = [Started(Busy(hist, running), "bibtex") EXCEPT
                    !.bibtexed = Append(@, auxinfo[loopvar'].k)]
    /\ running' = Popen(running, "bibtex")
    /\ pc' = "bibtexwait"
    /\ UNCHANGED <<runcount, keepgoing, auxinfo, oldauxinfo, indexfiles,
                   beamer_numslides, logchecker, outcome>>
    /\ UNCHANGED envvars
    /\ UNCHANGED cfgvars

\* a mutant of bibtexerrorout: the .blg file is read without errordisplay too
bibtexerroroutAlways(rc, errordisplay, blg) == rc # 0 /\ ~blg

\* errorout(message="Fatal bibtex error searching file ...") is reached
\* (lines 762-772): bibtex exited nonzero, errors are displayed and
\* blgchecker.search raised IOError
bibtexerrorout(rc, errordisplay, blg) == rc # 0 /\ errordisplay /\ ~blg

\* bibtex.wait() and the report of its exit code (lines 761-774); bibtex
\* that exits 0 has written the .bbl file; blg tells whether the .blg file
\* can be read
BibtexWait ==
    /\ pc = "bibtexwait"
    /\ \E rc \in {0, 1}, blg \in BOOLEAN :
        /\ running' = Waited(running, "bibtex")
        /\ hist' = Exited(hist, "bibtex", rc)
        /\ bblfile' = IF rc = 0
                      THEN [bblfile EXCEPT ![auxinfo[loopvar].k] = File(TRUE, now)]
                      ELSE bblfile
        /\ IF bibtexerrorout(rc, options.errordisplay, blg)
           THEN /\ outcome' = "FatalBibtex"
                /\ pc' = "done"
                /\ UNCHANGED loopvar
           ELSE /\ loopvar' = loopvar + 1
                /\ pc' = "bibtex"
                /\ UNCHANGED outcome
    /\ UNCHANGED <<runcount, keepgoing, auxinfo, oldauxinfo, indexfiles,
                   beamer_numslides, logchecker>>
    /\ UNCHANGED <<now, auxfs, logfile, idxin, idxout, pdf>>
    /\ UNCHANGED cfgvars

\* the bibtex loop is over; the index loop starts (line 778)
BibtexDone ==
    /\ pc = "bibtex"
    /\ NextBib(loopvar) = {}
    /\ loopvar' = 1
    /\ pc' = "index"
    /\ UNCHANGED <<runcount, keepgoing, auxinfo, oldauxinfo, indexfiles,
                   beamer_numslides, logchecker, running, outcome, hist>>
    /\ UNCHANGED envvars
    /\ UNCHANGED cfgvars

\* the item of indexfiles the index loop stands at
IndexItem == indexfiles[loopvar]

InExt == IndexItem.v[1]

OutExt == IndexItem.v[2]

\* os.path.isfile(extrafile[inext]) is false (line 779): nothing is built
IndexSkip ==
    /\ pc = "index"
    /\ loopvar <= Len(indexfiles)
    /\ ~idxin[InExt].exists
    /\ loopvar' = loopvar + 1
    /\ UNCHANGED <<pc, runcount, keepgoing, auxinfo, oldauxinfo, indexfiles,
                   beamer_numslides, logchecker, running, outcome, hist>>
    /\ UNCHANGED envvars
    /\ UNCHANGED cfgvars

\* makeauthor = subprocess.Popen(["authorindex", ...]) (lines 783-788)
AuthorindexPopen ==
    /\ pc = "index"
    /\ loopvar <= Len(indexfiles)
    /\ idxin[InExt].exists
    /\ IndexItem.k = "author"
    /\ hist' = Started(Busy(hist, running), "authorindex")
    /\ running' = Popen(running, "authorindex")
    /\ pc' = "authorindexwait"
    /\ UNCHANGED <<runcount, keepgoing, auxinfo, oldauxinfo, indexfiles,
                   beamer_numslides, logchecker, loopvar, outcome>>
    /\ UNCHANGED envvars
    /\ UNCHANGED cfgvars

\* makeauthor.wait(); its exit code is not read
AuthorindexWait ==
    /\ pc = "authorindexwait"
    /\ running' = Waited(running, "authorindex")
    /\ pc' = "makeindex"
    /\ UNCHANGED <<runcount, keepgoing, auxinfo, oldauxinfo, indexfiles,
                   beamer_numslides, logchecker, loopvar, outcome, hist>>
    /\ UNCHANGED envvars
    /\ UNCHANGED cfgvars

\* a mutant of iscitation: every index but the author index is cleaned
iscitationAll(indextype) == indextype # "author"

\* elif indextype == "citation" (line 791)
iscitation(indextype) == indextype = "citation"

\* citationindex.clean(extrafile[inext]) (lines 791-792); RuntimeError leaves
\* main and ends the script (lines 930-936)
CitationClean ==
    /\ pc = "index"
    /\ loopvar <= Len(indexfiles)
    /\ idxin[InExt].exists
    /\ IndexItem.k # "author"
    /\ iscitation(IndexItem.k)
    /\ \E addr \in Addresses :
       LET r == clean(idxin[InExt], addr)
           h == [Busy(hist, running) EXCEPT
                    !.cleaned = @ \cup {IndexItem.k},
                    !.corrupt =
                    @ \/ \E i \in 1..Len(idxin[InExt].lines) :
                             ~entrymatch(idxin[InExt].lines[i])]
       IN  /\ hist' = h
           /\ idxin' = [idxin EXCEPT ![InExt] = r.infile]
           /\ IF r.raised
              THEN /\ outcome' = "FatalCitation"
                   /\ pc' = "done"
              ELSE /\ pc' = "makeindex"
                   /\ UNCHANGED outcome
    /\ UNCHANGED <<runcount, keepgoing, auxinfo, oldauxinfo, indexfiles,
                   beamer_numslides, logchecker, loopvar, running>>
    /\ UNCHANGED <<now, auxfs, logfile, bblfile, idxout, pdf>>
    /\ UNCHANGED cfgvars

\* makeindex = subprocess.Popen(["makeindex", "-o", relout, relin], ...)
MakeindexPopen ==
    /\ \/ pc = "makeindex"
       \/ /\ pc = "index"
          /\ loopvar <= Len(indexfiles)
          /\ idxin[InExt].exists
          /\ IndexItem.k # "author"
          /\ ~iscitation(IndexItem.k)
    /\ hist' = Started(Busy(hist, running), "makeindex")
    /\ running' = Popen(running, "makeindex")
    /\ pc' = "makeindexwait"
    /\ UNCHANGED <<runcount, keepgoing, auxinfo, oldauxinfo, indexfiles,
                   beamer_numslides, logchecker, loopvar, outcome>>
    /\ UNCHANGED envvars
    /\ UNCHANGED cfgvars

\* makeindex.wait() (line 807); its exit code is not read; makeindex that
\* exits 0 has written the compiled index
MakeindexWait ==
    /\ pc = "makeindexwait"
    /\ \E rc \in {0, 1} :
        /\ running' = Waited(running, "makeindex")
        /\ hist' = Exited(hist, "makeindex", rc)
        /\ idxout' = IF rc = 0 THEN [idxout EXCEPT ![OutExt] = File(TRUE, now)]
                     ELSE idxout
    /\ loopvar' = loopvar + 1
    /\ pc' = "index"
    /\ UNCHANGED <<runcount, keepgoing, auxinfo, oldauxinfo, indexfiles,
                   beamer_numslides, logchecker, outcome>>
    /\ UNCHANGED <<now, auxfs, logfile, bblfile, idxin, pdf>>
    /\ UNCHANGED cfgvars

\* a mutant of oldauxfiles: every iteration looks for the files anew
oldauxfilesAnew ==
    <<AuxMain>> \o listdir(auxfs)
    \o (IF logfile.exists THEN getauxfromlog(logfile.lines, auxfs) ELSE <<>>)

\* the files of the old snapshot (lines 817-822)
oldauxfiles ==
    IF runcount = 1
    THEN <<AuxMain>> \o listdir(auxfs)
         \o (IF logfile.exists THEN getauxfromlog(logfile.lines, auxfs) ELSE <<>>)
    ELSE Keys(auxinfo)

\* the index loop is over: oldauxinfo = getauxinfo(...), then
\* pdflatex = subprocess.Popen(...) (lines 817-831)
PdflatexPopen ==
    /\ pc = "index"
    /\ loopvar > Len(indexfiles)
    /\ oldauxinfo' = getauxinfo(oldauxfiles, auxfs, options.paranoid)
    /\ hist' = [Started(Busy(hist, running), "pdflatex") EXCEPT
                    !.lastchanged = KeySet(auxinfo)]
    /\ running' = Popen(running, "pdflatex")
    /\ pc' = "pdflatexwait"
    /\ UNCHANGED <<runcount, keepgoing, auxinfo, indexfiles, beamer_numslides,
                   logchecker, loopvar, outcome>>
    /\ UNCHANGED envvars
    /\ UNCHANGED cfgvars

\* a mutant of pdflatexfailed: the exit code is not looked at
pdflatexfailedNot(rc) == FALSE

\* keepgoing = (pdflatex.returncode != 0)
pdflatexfailed(rc) == rc # 0

\* a mutant of citeerror: the two levels the wrong way round
citeerrorSwapped(ignore) == IF ignore THEN "error" ELSE "ignore"

\* citeerror = "ignore" if options["ignore_cite_errors"] else "error"
citeerror(ignore) == IF ignore THEN "ignore" ELSE "error"

\* a mutant of finalrunchecks: no rule is changed
finalrunchecksNone(checks, level) == checks

\* for k in ["undef", "undefref", "undefcite"]: logchecker.change(k, level)
finalrunchecks(checks, level) ==
    change(change(change(checks, PyStr("undef"), level).checks,
                  PyStr("undefref"), level).checks,
           PyStr("undefcite"), level).checks

\* a mutant of anymessages: a log without messages counts too
anymessagesAlways(messages) == TRUE

\* any(len(logmessages[k]) > 0 for k in ["warning", "error", "fatal"])
anymessages(messages) ==
    \E k \in {"warning", "error", "fatal"} : Len(messages[k]) > 0

\* the index input file pdflatex writes when its log has the lines idxlines
IndexWritten(idxlines) ==
    IF idxlines = <<>> THEN {idxin}
    ELSE {[idxin EXCEPT ![indexes[doc.index][1]] = f] :
             f \in {NoIndex, IndexFile(<<LnEntry>>)}
                   \cup (IF doc.index = "citation"
                         THEN {IndexFile(<<LnEntry, LnJunk>>)} ELSE {})}

\* pdflatex.wait() up to auxinfo = getmodifiedaux(...) (lines 832-857).  The
\* run that ends here has written, at the next tick of the clock, a log,
\* any of its aux files, its index input and, when it exits 0, the pdf; a
\* run that fails leaves no pdf (--halt-on-error, line 101).
PdflatexWait ==
    /\ pc = "pdflatexwait"
    /\ \E rc \in {0, 1}, msgs \in LogMessages, auxlines \in LogAux,
          idxlines \in LogIndex :
       \E main \in AfterRun(AuxMain, now + 1),
          sub \in AfterRun(AuxSub, now + 1),
          idx \in IndexWritten(idxlines) :
        LET fs == [f \in AuxPaths |-> IF f = AuxMain THEN main ELSE sub]
            log == msgs \o auxlines \o idxlines
            r == Waited(running, "pdflatex")
            checks == IF runcount = maxruns
                      THEN finalrunchecks(logchecker,
                                          citeerror(options.ignore_cite_errors))
                      ELSE logchecker
            logmessages == search(checks, log)
            auxfiles == <<AuxMain>> \o getauxfromlog(log, fs)
                        \o (IF options.check_all_aux THEN listdir(fs) ELSE <<>>)
            newauxinfo == getauxinfo(auxfiles, fs, options.paranoid)
        IN  /\ now' = now + 1
            /\ auxfs' = fs
            /\ logfile' = [exists |-> TRUE, lines |-> log]
            /\ idxin' = idx
            /\ pdf' = IF rc = 0 THEN File(TRUE, now + 1) ELSE Missing
            /\ running' = r
            /\ logchecker' = checks
            /\ keepgoing' = (pdflatexfailed(rc) \/ anymessages(logmessages))
            /\ auxinfo' = getmodifiedaux(oldauxinfo, newauxinfo, options.paranoid)
            /\ hist' = [Busy(Exited(hist, "pdflatex", rc), r) EXCEPT
                   !.pdflatexruns = @ + 1,
                   !.newfiles = KeySet(newauxinfo),
                   !.lastfiles = hist.newfiles,
                   !.allclean = @ /\ rc = 0 /\ msgs = <<>>,
                   !.allundefref = @ /\ msgs = <<LnUndefRef>>,
                   !.framesteady = @ /\ (hist.pdflatexruns >= 1 =>
                       checktotalslides(main) = checktotalslides(auxfs[AuxMain])),
                   !.changed = IF options.paranoid
                               THEN {f \in KeySet(newauxinfo) :
                                        Content(fs[f]) # Content(auxfs[f])}
                               ELSE {},
                   !.pdfrun = IF rc = 0 THEN File(TRUE, now + 1) ELSE Missing]
    /\ pc' = "afterlog"
    /\ UNCHANGED <<runcount, oldauxinfo, indexfiles, beamer_numslides, loopvar,
                   outcome>>
    /\ UNCHANGED <<bblfile, idxout>>
    /\ UNCHANGED cfgvars

\* a mutant of slidecheck: the frame count is not looked at
slidecheckNever(kg, numslides, recheck, file) ==
    [keepgoing |-> kg, beamer_numslides |-> numslides]

\* the check of the frame count (lines 871-876): keepgoing and
\* beamer_numslides afterwards
slidecheck(kg, numslides, recheck, file) ==
    IF (numslides # None \/ recheck) /\ checktotalslides(file) # numslides
    THEN [keepgoing |-> TRUE, beamer_numslides |-> checktotalslides(file)]
    ELSE [keepgoing |-> kg, beamer_numslides |-> numslides]

\* a mutant of auxloop: bibdata is not compared
RECURSIVE auxloopNoBibdata(_, _, _, _, _)
auxloopNoBibdata(info, old, paranoid, i, kg) ==
    IF i > Len(info) THEN kg
    ELSE LET f == info[i].k
             a == info[i].v
             kg2 == kg \/ (/\ paranoid
                           /\ (~HasKey(old, f) \/ Get(old, f).md5 # a.md5))
         IN  auxloopNoBibdata(info, old, paranoid, i + 1, kg2)

\* for (f, a) in auxinfo.items() (lines 883-894), from item i on
RECURSIVE auxloop(_, _, _, _, _)
auxloop(info, old, paranoid, i, kg) ==
    IF i > Len(info) THEN kg
    ELSE LET f == info[i].k
             a == info[i].v
             kg1 == kg \/ (/\ Len(a.bibdata) > 0
                           /\ HasKey(old, f)
                           /\ Get(old, f).bibdata # a.bibdata)
             kg2 == kg1 \/ (/\ paranoid
                            /\ (~HasKey(old, f) \/ Get(old, f).md5 # a.md5))
         IN  auxloop(info, old, paranoid, i + 1, kg2)

\* a mutant of indexoutofdate: an index as old as the source is in date
indexoutofdateStrict(files, out, textime) ==
    \E i \in 1..Len(files) : textime > getmtime(out[files[i].v[2]], PosInf)

\* for (_, ext) in indexfiles.values() (lines 897-902): textime >= indextime
indexoutofdate(files, out, textime) ==
    \E i \in 1..Len(files) : textime >= getmtime(out[files[i].v[2]], PosInf)

\* a mutant of belowminruns: the minimum is not looked at
belowminrunsNot(n, m) == FALSE

\* if runcount < minruns (line 905)
belowminruns(n, m) == n < m

\* lines 862-913 once biboutofdate has returned outofdate: the variables at
\* the end of the iteration
iterationend(outofdate) ==
    LET first == runcount = 1 \/ options.recheck_aux
        kg1 == keepgoing \/ (first /\ outofdate)
        sc == IF first
              THEN slidecheck(kg1, beamer_numslides, options.recheck_aux,
                              auxfs[AuxMain])
              ELSE [keepgoing |-> kg1, beamer_numslides |-> beamer_numslides]
        found == getindexfiles(logfile.lines)
        kg2 == auxloop(auxinfo, oldauxinfo, options.paranoid, 1, sc.keepgoing)
        kg3 == kg2 \/ indexoutofdate(found, idxout, TexMtime)
        kg4 == kg3 \/ belowminruns(runcount, minruns)
    IN  [keepgoing |-> kg4, beamer_numslides |-> sc.beamer_numslides,
         indexfiles |-> found]

\* the end of the iteration: break when keepgoing is false (lines 911-913)
EndWith(r, outofdate) ==
    LET e == iterationend(outofdate)
    IN  /\ keepgoing' = e.keepgoing
        /\ beamer_numslides' = e.beamer_numslides
        /\ indexfiles' = e.indexfiles
        /\ hist' = [Busy(hist, r) EXCEPT !.lastdecision =
                       IF e.keepgoing THEN "true" ELSE "false"]
        /\ pc' = IF e.keepgoing THEN "for" ELSE "finish"

\* whether lines 862-866 start kpsewhich
callskpsewhich ==
    /\ runcount = 1 \/ options.recheck_aux
    /\ needskpsewhich(auxinfo, options.check_blx_timestamps)

\* kpsewhich = subprocess.Popen(["kpsewhich"] + biblist, ...) (line 293)
KpsewhichPopen ==
    /\ pc = "afterlog"
    /\ callskpsewhich
    /\ hist' = Started(Busy(hist, running), "kpsewhich")
    /\ running' = Popen(running, "kpsewhich")
    /\ pc' = "kpsewhich"
    /\ UNCHANGED <<runcount, keepgoing, auxinfo, oldauxinfo, indexfiles,
                   beamer_numslides, logchecker, loopvar, outcome>>
    /\ UNCHANGED envvars
    /\ UNCHANGED cfgvars

\* kpsewhich.communicate() (line 295), the rest of biboutofdate and the
\* rest of the iteration
KpsewhichCommunicate ==
    /\ pc = "kpsewhich"
    /\ running' = Waited(running, "kpsewhich")
    /\ EndWith(running',
               biboutofdate(auxinfo, options.check_blx_timestamps, doc.bibmtime,
                            bblfile))
    /\ UNCHANGED <<runcount, auxinfo, oldauxinfo, logchecker, loopvar, outcome>>
    /\ UNCHANGED envvars
    /\ UNCHANGED cfgvars

\* the rest of the iteration when no bib file is looked up: biboutofdate,
\* if called, returns False (lines 269-272)
EndIteration ==
    /\ pc = "afterlog"
    /\ ~callskpsewhich
    /\ EndWith(running, FALSE)
    /\ UNCHANGED <<runcount, auxinfo, oldauxinfo, logchecker, loopvar, running,
                   outcome>>
    /\ UNCHANGED envvars
    /\ UNCHANGED cfgvars

\* after the loop (lines 916-925)
Finish ==
    /\ pc = "finish"
    /\ IF keepgoing
       THEN /\ pdf' = IF ~options.keep_pdf_timestamp /\ pdf.exists
                      THEN File(TRUE, TexMtime - 1) ELSE pdf
            /\ outcome' = "Failed"
       ELSE /\ outcome' = "Converged"
            /\ UNCHANGED pdf
    /\ pc' = "done"
    /\ UNCHANGED <<runcount, keepgoing, auxinfo, oldauxinfo, indexfiles,
                   beamer_numslides, logchecker, loopvar, running, hist>>
    /\ UNCHANGED <<now, auxfs, logfile, bblfile, idxin, idxout>>
    /\ UNCHANGED cfgvars

Next ==
    \/ ForHead
    \/ BibtexPopen
    \/ BibtexWait
    \/ BibtexDone
    \/ IndexSkip
    \/ AuthorindexPopen
    \/ AuthorindexWait
    \/ CitationClean
    \/ MakeindexPopen
    \/ MakeindexWait
    \/ PdflatexPopen
    \/ PdflatexWait
    \/ KpsewhichPopen
    \/ KpsewhichCommunicate
    \/ EndIteration
    \/ Finish

Spec == Init /\ [][Next]_vars

----------------------------------------------------------------------------
(* Properties of the build loop. *)

Fatal == {"FatalCitation", "FatalBibtex"}

\* C1: the loop takes at most maxruns iterations (max_runs, plus one in
\* paranoid mode) and every build ends: Converged follows a continue
\* decision of false, after which no iteration starts; Failed is reached
\* exactly when the decision of iteration maxruns is true; the other ends
\* are the fatal aborts; main never stops anywhere else.
C1_LoopTerminates ==
    /\ runcount <= maxruns
    /\ hist.pdflatexruns <= maxruns
    /\ hist.lastdecision = "false" => pc \in {"finish", "done"} /\ ~keepgoing
    /\ (pc = "done" /\ hist.lastdecision = "false" /\ outcome \notin Fatal)
           => outcome = "Converged"
    /\ outcome = "Converged" => hist.lastdecision = "false"
    /\ outcome = "Failed" <=> (/\ pc = "done"
                               /\ outcome \notin Fatal
                               /\ hist.lastdecision = "true"
                               /\ runcount = maxruns)
    /\ pc = "done" <=> outcome \in {"Converged", "Failed"} \cup Fatal
    /\ pc = "done" \/ ENABLED Next

\* a paranoid build that used its extra run and failed at the limit
C1_Witness ==
    /\ outcome = "Failed"
    /\ options.paranoid
    /\ runcount = options.max_runs + 1

\* C2: no build converges at an iteration below min_runs: a converged build
\* has waited for pdflatex at least min_runs times.
C2_MinRuns ==
    /\ hist.lastdecision = "false" => runcount >= minruns
    /\ outcome = "Converged" => hist.pdflatexruns >= minruns

\* a build that converged at the iteration min_runs forced it to
C2_Witness ==
    /\ outcome = "Converged"
    /\ minruns = MaxMinRuns
    /\ runcount = minruns
    /\ hist.allclean

\* min_runs 2, max iterations 4, not paranoid, no bibliography, no index,
\* and every pdflatex run so far exited 0 with a log without messages
C3_Scenario ==
    /\ minruns = 2
    /\ maxruns = 4
    /\ ~options.paranoid
    /\ ~doc.bib
    /\ doc.index = "none"
    /\ hist.allclean

\* C3 as stated: in the scenario the loop takes exactly 2 iterations and
\* converges.
C3_Original ==
    C3_Scenario => /\ runcount <= 2
                   /\ pc = "done" => (outcome = "Converged" /\ runcount = 2)

\* C3: in the scenario the loop takes exactly 2 iterations and converges,
\* provided the frame count of the main aux file is not rechecked
\* (--recheck-aux off) or no run after the first changes it.
C3_TwoRuns ==
    (C3_Scenario /\ (~options.recheck_aux \/ hist.framesteady))
        => /\ runcount <= 2
           /\ pc = "done" => (outcome = "Converged" /\ runcount = 2)

\* the scenario ended, on a beamer document whose frame count is rechecked
C3_Witness ==
    /\ C3_Scenario
    /\ doc.beamer
    /\ options.recheck_aux
    /\ hist.framesteady
    /\ beamer_numslides # None
    /\ outcome = "Converged"

\* min_runs 1, max iterations 3, and every pdflatex log so far held one
\* undefined-reference warning; the build has ended
C4_Scenario ==
    /\ minruns = 1
    /\ maxruns = 3
    /\ hist.allundefref
    /\ pc = "done"

\* the level of the undefined-reference rule
undefreflevel == Get(logchecker, PyStr("undefref")).level

C5_PdfTimestamp ==
    pc = "done" =>
        /\ (outcome \in {"Failed"} \cup Fatal /\ ~options.keep_pdf_timestamp
            /\ hist.pdfrun.exists) => pdf = File(TRUE, TexMtime - 1)
        /\ (outcome = "Converged" \/ options.keep_pdf_timestamp)
               => pdf = hist.pdfrun

\* the end of an iteration: the continue decision has been taken
IterationEnded == pc \in {"for", "finish"} /\ runcount >= 1

\* C6 as stated: a nonzero exit of bibtex, makeindex or pdflatex in an
\* iteration makes the continue decision of that iteration true.
C6_Original ==
    /\ (IterationEnded /\ hist.failed # {}) => keepgoing
    /\ outcome = "Converged" => hist.failed = {}

\* C6: a nonzero exit of pdflatex in an iteration makes the continue
\* decision of that iteration true, so the loop does not converge there;
\* the exit code of bibtex is only reported and that of makeindex is not
\* read, and neither enters the decision.
C6_PdflatexExit ==
    /\ (IterationEnded /\ "pdflatex" \in hist.failed)
           => (keepgoing /\ hist.lastdecision = "true")
    /\ outcome = "Converged" => "pdflatex" \notin hist.failed

\* pdflatex failed in the last iteration allowed and the build failed
C6_Witness ==
    /\ outcome = "Failed"
    /\ hist.failed = {"pdflatex"}
    /\ hist.allclean = FALSE
    /\ doc.index = "subject"

\* C7: once citationindex.clean has met a line that is no entry the build
\* has ended in a failure: neither makeindex nor pdflatex was started in
\* that iteration and nothing more happens.
C7_CorruptIndexAborts ==
    hist.corrupt => /\ pc = "done"
                    /\ outcome = "FatalCitation"
                    /\ "makeindex" \notin hist.started
                    /\ "pdflatex" \notin hist.started
                    /\ ~ENABLED Next

\* the citation index written by the first run was corrupt
C7_Witness ==
    /\ hist.corrupt
    /\ runcount = 2
    /\ idxin["ctx"] = IndexFile(<<LnEntry, LnJunk>>)

\* C8: at most one subprocess runs at any time, and main neither starts
\* another nor takes a snapshot, scans a log or checks a timestamp while
\* one runs.
C8_OneSubprocess ==
    /\ Len(running) <= 1
    /\ ~hist.busy

\* kpsewhich runs, after bibtex and pdflatex of the iteration have ended
C8_Witness ==
    /\ running = <<"kpsewhich">>
    /\ {"bibtex", "pdflatex"} \subseteq hist.started

\* C9: in paranoid mode the continue decision is true in every iteration
\* whose pdflatex run changed the content of a tracked aux file, so no
\* build converges there.
C9_ParanoidContent ==
    options.paranoid =>
        /\ (IterationEnded /\ hist.changed # {}) => keepgoing
        /\ outcome = "Converged" => hist.changed = {}

----------------------------------------------------------------------------
(* getauxinfo and getmodifiedaux on their own: a snapshot A of a list of   *)
(* files of a build directory, then getmodifiedaux(A, A, md5).             *)

\* the longest list of files handed to getauxinfo
MaxFiles == 2

\* the lists of aux files of at most n entries
RECURSIVE FileLists(_)
FileLists(n) ==
    IF n = 0 THEN {<<>>}
    ELSE FileLists(n - 1)
         \cup {Append(l, f) : l \in {x \in FileLists(n - 1) : Len(x) = n - 1},
                              f \in AuxPaths}

\* the aux files a build directory may hold
AuxStates ==
    {NoFile} \cup [exists : {TRUE}, mtime : 0..TexMtime,
                   bibdata : {<<>>, <<"a">>}, slides : {None}, body : {0, 1}]

mainvars == <<options, doc, pc, runcount, keepgoing, auxinfo, oldauxinfo,
              indexfiles, beamer_numslides, logchecker, loopvar, running,
              now, auxfs, logfile, bblfile, idxin, idxout, pdf, outcome, hist>>

\* main is not running
MainIdle ==
    /\ doc = [sub |-> TRUE, bib |-> FALSE, beamer |-> FALSE, index |-> "none",
              bibmtime |-> 0]
    /\ options = [min_runs |-> 1, max_runs |-> 1, paranoid |-> FALSE,
                  ignore_cite_errors |-> FALSE, keep_pdf_timestamp |-> FALSE,
                  recheck_aux |-> FALSE, errordisplay |-> TRUE,
                  check_all_aux |-> FALSE, show_cite_errors |-> FALSE,
                  check_blx_timestamps |-> FALSE]
    /\ pc = "idle"
    /\ runcount = 0
    /\ keepgoing = TRUE
    /\ auxinfo = <<>>
    /\ oldauxinfo = <<>>
    /\ indexfiles = <<>>
    /\ beamer_numslides = None
    /\ logchecker = logcheckerInit
    /\ loopvar = 0
    /\ running = <<>>
    /\ now = TexMtime
    /\ auxfs = [f \in AuxPaths |-> NoFile]
    /\ logfile = [exists |-> FALSE, lines |-> <<>>]
    /\ bblfile = [f \in AuxPaths |-> Missing]
    /\ idxin = [e \in {"idx", "ain", "ctx"} |-> NoIndex]
    /\ idxout = [e \in {"ind", "and", "cnd"} |-> Missing]
    /\ pdf = Missing
    /\ outcome = "idle"
    /\ hist = HistInit

InitDiff ==
    /\ MainIdle
    /\ \E files \in FileLists(MaxFiles), fs \in [AuxPaths -> AuxStates],
          md5 \in BOOLEAN, strict \in BOOLEAN :
        fn = [spec |-> "diff", pc |-> "files", files |-> files, fs |-> fs,
              md5 |-> md5, strict |-> strict, A |-> <<>>, changed |-> <<>>]

\* A = getauxinfo(files, pdir, md5)
DiffSnapshot ==
    /\ fn.spec = "diff"
    /\ fn.pc = "files"
    /\ fn' = [fn EXCEPT !.pc = "snapshot",
                        !.A = getauxinfo(fn.files, fn.fs, fn.md5)]
    /\ UNCHANGED mainvars

\* changed = getmodifiedaux(A, A, strict)
DiffSelf ==
    /\ fn.spec = "diff"
    /\ fn.pc = "snapshot"
    /\ fn' = [fn EXCEPT !.pc = "changed",
                        !.changed = getmodifiedaux(fn.A, fn.A, fn.strict)]
    /\ UNCHANGED mainvars

NextDiff == DiffSnapshot \/ DiffSelf

SpecDiff == InitDiff /\ [][NextDiff]_vars

\* C10: getmodifiedaux(A, A, md5) is the empty dict for every snapshot A
\* and both values of md5.
C10_DiffSelfEmpty ==
    (fn.spec = "diff" /\ fn.pc = "changed") => fn.changed = <<>>

\* a snapshot of two files with digests, one of them missing, compared
\* with itself with md5 on
C10_Witness ==
    /\ fn.spec = "diff"
    /\ fn.pc = "changed"
    /\ fn.strict
    /\ Len(fn.A) = 2
    /\ fn.A[1].v.md5 # None
    /\ ~fn.A[2].v.exists

----------------------------------------------------------------------------
(* getmodifiedaux on two snapshots of a build directory: old before and    *)
(* new after the directory has changed.                                    *)

\* the aux files of the directory at the old snapshot
OldStates == {NoFile, [exists |-> TRUE, mtime |-> 0, bibdata |-> <<>>,
                       slides |-> None, body |-> 0]}

\* and at the new one
NewStates ==
    {NoFile} \cup [exists : {TRUE}, mtime : {0, 1}, bibdata : {<<>>},
                   slides : {None}, body : {0, 1}]

InitChanges ==
    /\ MainIdle
    /\ \E oldfiles \in FileLists(MaxFiles), newfiles \in FileLists(MaxFiles),
          oldfs \in [AuxPaths -> OldStates], newfs \in [AuxPaths -> NewStates],
          md5 \in BOOLEAN, strict \in BOOLEAN :
        fn = [spec |-> "changes", pc |-> "files", oldfiles |-> oldfiles,
              newfiles |-> newfiles, oldfs |-> oldfs, newfs |-> newfs,
              md5 |-> md5, strict |-> strict, old |-> <<>>, new |-> <<>>,
              changed |-> <<>>]

\* old = getauxinfo(oldfiles, pdir, md5)
ChangesOld ==
    /\ fn.spec = "changes"
    /\ fn.pc = "files"
    /\ fn' = [fn EXCEPT !.pc = "old",
                        !.old = getauxinfo(fn.oldfiles, fn.oldfs, fn.md5)]
    /\ UNCHANGED mainvars

\* new = getauxinfo(newfiles, pdir, md5), and
\* changed = getmodifiedaux(old, new, strict)
ChangesNew ==
    /\ fn.spec = "changes"
    /\ fn.pc = "old"
    /\ LET new == getauxinfo(fn.newfiles, fn.newfs, fn.md5)
       IN  fn' = [fn EXCEPT !.pc = "changed", !.new = new,
                            !.changed = getmodifiedaux(fn.old, new, fn.strict)]
    /\ UNCHANGED mainvars

NextChanges == ChangesOld \/ ChangesNew

SpecChanges == InitChanges /\ [][NextChanges]_vars

\* C11 as stated: a file missing at both snapshots is not in
\* getmodifiedaux(old, new), also when it is in new and not in old.
C11_Original ==
    (fn.spec = "changes" /\ fn.pc = "changed") =>
        \A f \in KeySet(fn.new) :
            (~fn.oldfs[f].exists /\ ~fn.newfs[f].exists)
                => ~HasKey(fn.changed, f)

\* C11: a file that has an entry in old and in new and is missing at both
\* snapshots is not in getmodifiedaux(old, new); a file of new without an
\* entry in old is in it, missing or not.
C11_MissingInBoth ==
    (fn.spec = "changes" /\ fn.pc = "changed") =>
        \A f \in KeySet(fn.new) :
            /\ (HasKey(fn.old, f) /\ ~Get(fn.old, f).exists
                /\ ~Get(fn.new, f).exists) => ~HasKey(fn.changed, f)
            /\ ~HasKey(fn.old, f) => HasKey(fn.changed, f)

\* one file missing in both snapshots, while the other one changed
C11_Witness ==
    /\ fn.spec = "changes"
    /\ fn.pc = "changed"
    /\ HasKey(fn.old, AuxMain) /\ HasKey(fn.new, AuxMain)
    /\ ~Get(fn.old, AuxMain).exists /\ ~Get(fn.new, AuxMain).exists
    /\ KeySet(fn.changed) = {AuxSub}
    /\ fn.strict

----------------------------------------------------------------------------
(* biboutofdate on its own: auxinfo of a build directory, the .bbl files   *)
(* beside its aux files and the mtime of the bib files kpsewhich finds.    *)

\* the aux files of the directory: without \bibdata, with a bib file, with
\* the bib file biblatex writes
BibStates ==
    {NoFile} \cup [exists : {TRUE}, mtime : {0}, slides : {None}, body : {0},
                   bibdata : {<<>>, <<"a">>, <<"main-blx">>}]

InitBib ==
    /\ MainIdle
    /\ \E files \in FileLists(MaxFiles), fs \in [AuxPaths -> BibStates],
          bbl \in [AuxPaths -> {Missing} \cup {File(TRUE, t) : t \in 0..TexMtime}],
          bibtime \in 0..TexMtime, includeblx \in BOOLEAN :
        fn = [spec |-> "bib", pc |-> "auxinfo",
              auxinfo |-> getauxinfo(files, fs, FALSE), bbl |-> bbl,
              bibtime |-> bibtime, includeblx |-> includeblx,
              outofdate |-> FALSE]

\* (outofdate, fullbib) = biboutofdate(auxinfo, pdir, includeblx)
BibOutOfDate ==
    /\ fn.spec = "bib"
    /\ fn.pc = "auxinfo"
    /\ fn' = [fn EXCEPT !.pc = "outofdate",
                        !.outofdate = biboutofdate(fn.auxinfo, fn.includeblx,
                                                   fn.bibtime, fn.bbl)]
    /\ UNCHANGED mainvars

NextBibOutOfDate == BibOutOfDate

SpecBib == InitBib /\ [][NextBibOutOfDate]_vars

\* biboutofdate has returned for an auxinfo that names a bib file
BibReferenced ==
    /\ fn.spec = "bib"
    /\ fn.pc = "outofdate"
    /\ needskpsewhich(fn.auxinfo, fn.includeblx)

\* C12 as stated: with a bib file referenced, biboutofdate is true whenever
\* the .bbl file of an aux file of auxinfo does not exist.
C12_Original ==
    (BibReferenced /\ \E f \in KeySet(fn.auxinfo) : ~fn.bbl[f].exists)
        => fn.outofdate

\* C12: a .bbl file that does not exist counts as infinitely new and so is
\* left out: with a bib file referenced, biboutofdate is true iff some .bbl
\* file that exists is not newer than the bib files, and false when every
\* .bbl file is missing, whatever the mtime of the bib files.
C12_MissingBblIgnored ==
    BibReferenced =>
        (fn.outofdate <=> \E f \in KeySet(fn.auxinfo) :
                              fn.bbl[f].exists /\ fn.bibtime >= fn.bbl[f].mtime)

\* a bib file is referenced, no .bbl file exists, and the answer is False
C12_Witness ==
    /\ BibReferenced
    /\ \A f \in KeySet(fn.auxinfo) : ~fn.bbl[f].exists
    /\ fn.bibtime = TexMtime
    /\ ~fn.outofdate

----------------------------------------------------------------------------
(* The check of the index timestamps (lines 897-902) on its own: the       *)
(* indices getindexfiles finds in a log and the compiled index files.      *)

\* the longest log read
MaxLogLen == 2

\* the logs of at most n lines about index files
RECURSIVE IndexLogs(_)
IndexLogs(n) ==
    IF n = 0 THEN {<<>>}
    ELSE IndexLogs(n - 1)
         \cup {Append(l, x) : l \in {y \in IndexLogs(n - 1) : Len(y) = n - 1},
                              x \in {LnText, LnIdx, LnAin, LnCtx}}

InitIndex ==
    /\ MainIdle
    /\ \E log \in IndexLogs(MaxLogLen), kg \in BOOLEAN,
          out \in [{"ind", "and", "cnd"} ->
                      {Missing} \cup {File(TRUE, t) : t \in 0..(TexMtime + 1)}] :
        fn = [spec |-> "index", pc |-> "log", log |-> log, out |-> out,
              before |-> kg, indexfiles |-> <<>>, keepgoing |-> kg]

\* indexfiles = getindexfiles(log), then lines 897-902
IndexCheck ==
    /\ fn.spec = "index"
    /\ fn.pc = "log"
    /\ LET found == getindexfiles(fn.log)
       IN  fn' = [fn EXCEPT !.pc = "checked", !.indexfiles = found,
                     !.keepgoing = @ \/ indexoutofdate(found, fn.out, TexMtime)]
    /\ UNCHANGED mainvars

NextIndex == IndexCheck

SpecIndex == InitIndex /\ [][NextIndex]_vars

\* the compiled index files of the indices found
FoundOut == {fn.out[fn.indexfiles[i].v[2]] : i \in 1..Len(fn.indexfiles)}

IndexChecked == fn.spec = "index" /\ fn.pc = "checked" /\ ~fn.before

\* C13 as stated: the check sets keepgoing iff the source is not older than
\* a compiled index, a missing compiled index being infinitely old.
C13_Original ==
    IndexChecked =>
        (fn.keepgoing <=> \E o \in FoundOut : ~o.exists \/ TexMtime >= o.mtime)

\* C13: the check sets keepgoing iff some index found has a compiled file
\* that exists and is not newer than the source; equal timestamps are
\* stale; a compiled index that does not exist counts as infinitely new
\* and never sets keepgoing.
C13_IndexStale ==
    IndexChecked =>
        (fn.keepgoing <=> \E o \in FoundOut : o.exists /\ TexMtime >= o.mtime)

\* an index as old as the source beside one that was never compiled
C13_Witness ==
    /\ IndexChecked
    /\ fn.keepgoing
    /\ FoundOut = {Missing, File(TRUE, TexMtime)}

----------------------------------------------------------------------------
(* More properties of the build loop. *)

\* C14 as stated: when the bibdata of an aux file differs between the
\* snapshot before and the snapshot after the pdflatex run of an iteration,
\* the continue decision of the iteration is true.
C14_Original ==
    IterationEnded =>
        \A f \in KeySet(oldauxinfo) :
            (/\ Get(oldauxinfo, f).exists
             /\ auxfs[f].exists
             /\ f = AuxMain \/ f \in Range(getauxfromlog(logfile.lines, auxfs))
             /\ Get(oldauxinfo, f).bibdata # getbibdata(auxfs[f]))
                => keepgoing

\* C14: when an aux file of the changed files of an iteration (auxinfo: its
\* timestamp is later than in the snapshot before, or in paranoid mode its
\* digest differs) has an entry in the snapshot before, holds bibdata after
\* the run, and this bibdata differs from that of the snapshot before, the
\* continue decision of the iteration is true.
C14_BibdataChanged ==
    IterationEnded =>
        \A i \in 1..Len(auxinfo) :
            (/\ HasKey(oldauxinfo, auxinfo[i].k)
             /\ Len(auxinfo[i].v.bibdata) > 0
             /\ Get(oldauxinfo, auxinfo[i].k).bibdata # auxinfo[i].v.bibdata)
                => keepgoing

\* the second run only swapped the two bib files; exit 0 and a clean log
C14_Witness ==
    /\ IterationEnded
    /\ runcount = 2
    /\ hist.allclean
    /\ ~options.recheck_aux
    /\ HasKey(auxinfo, AuxMain) /\ HasKey(oldauxinfo, AuxMain)
    /\ Len(Get(oldauxinfo, AuxMain).bibdata) = 2
    /\ Len(Get(auxinfo, AuxMain).bibdata) = 2
    /\ Get(oldauxinfo, AuxMain).bibdata # Get(auxinfo, AuxMain).bibdata
    /\ keepgoing

\* the level of the rule for the summary of undefined references
undeflevel == Get(logchecker, PyStr("undef")).level

C19_Original ==
    /\ outcome # "FatalBibtex"
    /\ ("bibtex" \in hist.failed /\ pc \in {"for", "finish"})
           => "pdflatex" \in hist.started

\* C19: a nonzero exit of bibtex ends the script, by errorout, only when
\* errors are displayed and the .blg file of bibtex cannot be read; no
\* pdflatex run follows then.  In every other case main goes on with the
\* bibtex loop, the index loop and the pdflatex run of the iteration.
C19_FatalOnlyWithoutBlg ==
    /\ outcome = "FatalBibtex"
           => /\ options.errordisplay
              /\ "bibtex" \in hist.failed
              /\ pc = "done"
              /\ "pdflatex" \notin hist.started
    /\ ("bibtex" \in hist.failed /\ pc = "bibtex") => outcome = "running"
    /\ ("bibtex" \in hist.failed /\ pc \in {"for", "finish"})
           => "pdflatex" \in hist.started

\* errors are displayed, bibtex exited nonzero, and pdflatex was run
C19_Witness ==
    /\ options.errordisplay
    /\ "bibtex" \in hist.failed
    /\ pc = "for"
    /\ "pdflatex" \in hist.started
    /\ outcome = "running"

\* main is in the index loop of an iteration or between this loop and the
\* end of the pdflatex run, which writes the index input files anew
IndexLoop ==
    pc \in {"index", "authorindexwait", "makeindex", "makeindexwait",
            "pdflatexwait"}

\* the index input file of item i of indexfiles exists
InputExists(i) == idxin[indexfiles[i].v[1]].exists

\* C20: in an iteration citationindex.clean is called only for the citation
\* index, and only when its input file exists, and it has returned when
\* makeindex is started for this index; for the other indices makeindex is
\* started without it; for an index whose input file does not exist neither
\* is called, and for every index whose input file exists makeindex is run.
C20_CleanBeforeMakeindex ==
    /\ hist.cleaned \subseteq {"citation"}
    /\ IndexLoop =>
        /\ \A t \in hist.cleaned :
               HasKey(indexfiles, t) /\ idxin[indexes[t][1]].exists
        /\ (\A i \in 1..Len(indexfiles) : ~InputExists(i))
               => hist.cleaned = {} /\ "makeindex" \notin hist.started
    /\ pc = "makeindex" =>
        /\ IndexItem.k = "citation" => /\ "citation" \in hist.cleaned
                                       /\ "makeindex" \notin hist.started
                                       /\ running = <<>>
    /\ pc = "makeindexwait" =>
        /\ InputExists(loopvar)
        /\ "citation" \in hist.cleaned <=> IndexItem.k = "citation"
    /\ pc = "pdflatexwait" =>
        \A i \in 1..Len(indexfiles) :
            InputExists(i) => "makeindex" \in hist.started

\* makeindex runs on the citation index that clean has rewritten
C20_Witness ==
    /\ pc = "makeindexwait"
    /\ IndexItem.k = "citation"
    /\ hist.cleaned = {"citation"}
    /\ \E addr \in Addresses : idxin["ctx"] = IndexFile(<<LnCleaned(addr)>>)
    /\ running = <<"makeindex">>

----------------------------------------------------------------------------
(* CitationIndex.clean as a function of the files it is called on. *)

MaxLines == 2

Authors == {<<"Doe">>, <<"{", "\\ss", "}", "Roe">>}

Years == {<<"2000">>, <<"2000", "a">>}

Pages == {<<"1">>, <<"iv">>}

\* what a line of the input is made from: a citation or other text
Items ==
    [kind : {"entry"}, author : Authors, year : Years, page : Pages]
        \cup {[kind |-> "junk", author |-> <<>>, year |-> <<>>, page |-> <<>>]}

LineOf(item) ==
    IF item.kind = "entry" THEN RawEntry(item.author, item.year, item.page)
    ELSE LnJunk

\* the inputs of at most n lines
RECURSIVE ItemLists(_)
ItemLists(n) ==
    IF n = 0 THEN {<<>>}
    ELSE ItemLists(n - 1)
         \cup {Append(l, x) : l \in {y \in ItemLists(n - 1) : Len(y) = n - 1},
                              x \in Items}

\* outfilename is None or names a file that may exist already
InitClean ==
    /\ MainIdle
    /\ \E items \in ItemLists(MaxLines), explicit \in BOOLEAN :
       \E out \in IF explicit THEN {NoIndex, IndexFile(<<LnJunk>>)}
                  ELSE {NoIndex} :
        LET infile == IndexFile([i \in 1..Len(items) |-> LineOf(items[i])])
        IN  fn = [spec |-> "clean", pc |-> "call", items |-> items,
                  explicit |-> explicit, infile |-> infile, outfile |-> out,
                  before |-> IF explicit THEN out ELSE infile,
                  raised |-> FALSE, first |-> NoIndex,
                  again |-> FALSE, second |-> NoIndex]

\* the file the entries are for
Destination == IF fn.explicit THEN fn.outfile ELSE fn.infile

\* citationindex.clean(infilename) or citationindex.clean(infilename,
\* outfilename)
CleanCall ==
    /\ fn.spec = "clean"
    /\ fn.pc = "call"
    /\ \E addr \in Addresses :
       IF fn.explicit
       THEN LET r == cleanout(fn.infile, addr)
            IN  fn' = [fn EXCEPT !.pc = "cleaned", !.raised = r.raised,
                          !.outfile = r.outfile, !.first = r.outfile]
       ELSE LET r == clean(fn.infile, addr)
            IN  fn' = [fn EXCEPT !.pc = "cleaned", !.raised = r.raised,
                          !.infile = r.infile, !.first = r.infile]
    /\ UNCHANGED mainvars

\* citationindex.clean(f) on the file f the first call has cleaned
CleanAgain ==
    /\ fn.spec = "clean"
    /\ fn.pc = "cleaned"
    /\ ~fn.raised
    /\ \E addr \in Addresses :
       LET r == clean(fn.first, addr)
       IN  fn' = [fn EXCEPT !.pc = "again", !.again = r.raised,
                     !.second = r.infile]
    /\ UNCHANGED mainvars

NextClean == CleanCall \/ CleanAgain

SpecClean == InitClean /\ [][NextClean]_vars

\* what is displayed of an entry: the text after the "@"
Payload(line) ==
    SubSeq(line, Least({i \in 1..Len(line) : line[i] = "@"}) + 1, Len(line))

HasPayload(line) == \E i \in 1..Len(line) : line[i] = "@"

\* C15 as stated: a second run of clean on a file clean has written
\* succeeds and leaves the displayed text of every entry as it was.
C15_Original ==
    (fn.spec = "clean" /\ fn.pc = "again") =>
        /\ ~fn.again
        /\ Len(fn.second.lines) = Len(fn.first.lines)
        /\ \A i \in 1..Len(fn.first.lines) :
               /\ HasPayload(fn.second.lines[i])
               /\ Payload(fn.second.lines[i]) = Payload(fn.first.lines[i])

\* C15: a second run of clean on a file clean has written raises
\* RuntimeError when the file has an entry, since a line clean writes is no
\* entry for entryre, and leaves the file as the first run wrote it, which
\* keeps the displayed text; on a file without lines it succeeds.
C15_SecondRunRaises ==
    (fn.spec = "clean" /\ fn.pc = "again") =>
        /\ fn.again <=> Len(fn.first.lines) > 0
        /\ fn.second = fn.first

C15_Witness ==
    /\ fn.spec = "clean" /\ fn.pc = "again"
    /\ fn.again
    /\ Len(fn.first.lines) = MaxLines
    /\ fn.second = fn.first

\* C16: when a line of the input is no entry, clean raises and leaves the
\* file the entries are for as it was before the call, be it the input file
\* or the file outfilename names.
C16_NoPartialWrite ==
    (/\ fn.spec = "clean" /\ fn.pc = "cleaned"
     /\ \E i \in 1..Len(fn.items) : fn.items[i].kind = "junk")
        => fn.raised /\ Destination = fn.before

\* the displayed text of a citation
Display(item) ==
    <<"{">> \o item.author \o <<"}", "\\ ">> \o item.year
        \o <<"}", "{">> \o item.page \o <<"}">>

\* C17: clean writes one line for each line of the input, in the order of
\* the input, and the line displays author, year and page of the entry as
\* they are in the input; only the key before the "@" is made by purify.
C17_DisplayUnchanged ==
    (fn.spec = "clean" /\ fn.pc = "cleaned" /\ ~fn.raised) =>
        /\ Len(Destination.lines) = Len(fn.items)
        /\ \A i \in 1..Len(fn.items) :
               /\ IsAt(Destination.lines[i], 1, <<"\\indexentry", "{">>)
               /\ HasPayload(Destination.lines[i])
               /\ Payload(Destination.lines[i]) = Display(fn.items[i])

C17_Witness ==
    /\ fn.spec = "clean" /\ fn.pc = "cleaned" /\ ~fn.raised
    /\ Len(fn.items) = MaxLines
    /\ fn.items[1].author # fn.items[2].author
    /\ \A i \in 1..Len(fn.items) :
           Payload(Destination.lines[i]) = Display(fn.items[i])

----------------------------------------------------------------------------
(* More properties of the build loop, II. *)

\* the bibtex loop of the iteration is over and pdflatex has not ended
BibtexLoopOver == IndexLoop /\ outcome = "running"

\* C21 as stated: in every iteration bibtex is run for every aux file that
\* has bibdata, in iteration 1 and for files the last run left alone too.
C21_Original ==
    BibtexLoopOver =>
        \A f \in AuxPaths :
            (auxfs[f].exists /\ Len(getbibdata(auxfs[f])) > 0)
                => f \in Range(hist.bibtexed)

\* the keys of the items of d, from item i on, whose bibdata is not empty
RECURSIVE WithBibdata(_, _)
WithBibdata(d, i) ==
    IF i > Len(d) THEN <<>>
    ELSE (IF Len(d[i].v.bibdata) > 0 THEN <<d[i].k>> ELSE <<>>)
         \o WithBibdata(d, i + 1)

\* C21: in iteration 1 bibtex is not run, auxinfo being empty.  In a later
\* iteration bibtex is run once for every file of auxinfo, the files the
\* last pdflatex run changed, that has bibdata, and for no other file.
C21_BibtexForChanged ==
    BibtexLoopOver =>
        /\ hist.bibtexed = WithBibdata(auxinfo, 1)
        /\ runcount = 1 => hist.bibtexed = <<>>

\* in iteration 2 bibtex has run for the main aux file, which run 1 wrote
C21_Witness ==
    /\ BibtexLoopOver
    /\ runcount = 2
    /\ hist.bibtexed = <<AuxMain>>
    /\ WithBibdata(auxinfo, 1) = <<AuxMain>>

\* iteration 1 has ended
FirstEnded == IterationEnded /\ runcount = 1

\* C22 as stated: when the frame count of the main aux file after run 1 is
\* not the count read before the loop, none before and one after included,
\* keepgoing is true at the end of iteration 1.
C22_Original ==
    (FirstEnded /\ checktotalslides(auxfs[AuxMain]) # hist.numslides0)
        => keepgoing

\* C22: when the frame count of the main aux file after run 1 is not the
\* count read before the loop, keepgoing is true at the end of iteration 1
\* if there was a count before the loop or --recheck-aux is given, and
\* beamer_numslides is the new count.  With no count before the loop and
\* without --recheck-aux the count is not read again.
C22_SlideCount ==
    FirstEnded =>
        /\ (/\ checktotalslides(auxfs[AuxMain]) # hist.numslides0
            /\ (hist.numslides0 # None \/ options.recheck_aux))
               => /\ keepgoing
                  /\ beamer_numslides = checktotalslides(auxfs[AuxMain])
        /\ (hist.numslides0 = None /\ ~options.recheck_aux)
               => beamer_numslides = None

\* run 1, clean and sufficient otherwise, changed the number of frames
C22_Witness ==
    /\ FirstEnded
    /\ minruns = 1
    /\ hist.allclean
    /\ ~options.recheck_aux
    /\ hist.numslides0 = PyInt(1)
    /\ checktotalslides(auxfs[AuxMain]) = PyInt(2)
    /\ beamer_numslides = PyInt(2)
    /\ keepgoing

\* an iteration after the first has ended
LaterEnded == IterationEnded /\ runcount >= 2

\* the files of the run before that this run did not change
Unchanged == hist.lastfiles \ hist.lastchanged

----------------------------------------------------------------------------
(* More properties of getauxinfo, under SpecDiff. *)

\* getauxinfo has returned A
Snapshot == fn.spec = "diff" /\ fn.pc # "files"

\* C23: getauxinfo returns an entry for every file of the list, missing
\* files too, and the entry of a file that does not exist has exists false,
\* timestamp -inf, no bibdata and md5 None.
C23_MissingFile ==
    Snapshot =>
        /\ KeySet(fn.A) = Range(fn.files)
        /\ \A f \in KeySet(fn.A) :
               /\ Get(fn.A, f).exists <=> fn.fs[f].exists
               /\ ~Get(fn.A, f).exists =>
                      /\ Get(fn.A, f).timestamp = NegInf
                      /\ Get(fn.A, f).bibdata = <<>>
                      /\ Get(fn.A, f).md5 = None

\* a file that does not exist beside one that does
C23_Witness ==
    /\ Snapshot
    /\ fn.md5
    /\ fn.files = <<AuxMain, AuxSub>>
    /\ Get(fn.A, AuxMain).md5 # None
    /\ ~Get(fn.A, AuxSub).exists
    /\ Get(fn.A, AuxSub).timestamp = NegInf

\* C24: with md5 true every file of the snapshot that exists has a digest,
\* whatever the order of the list and whether or not files of it are
\* missing; with md5 false no file has one.
C24_StrictUniform ==
    Snapshot =>
        \A f \in KeySet(fn.A) :
            Get(fn.A, f).exists => (Get(fn.A, f).md5 # None <=> fn.md5)

----------------------------------------------------------------------------
(* ErrorChecker as an object: a table and calls of add and change. *)

MaxCalls == 3

\* the names a caller passes: none, a str, an int
CallNames == {None, PyStr("undef"), PyInt(0)}

NoCall == [op |-> "none", name |-> None, raised |-> ""]

\* ErrorChecker(defaultlevel="warning")
InitChecker ==
    /\ MainIdle
    /\ fn = [spec |-> "checker", checks |-> <<>>, prev |-> <<>>, calls |-> 0,
             last |-> NoCall]

\* checker.add(regex, level=level, name=name)
CheckerAdd ==
    /\ fn.spec = "checker"
    /\ fn.calls < MaxCalls
    /\ \E regex \in {{LnRerun}, {LnUndef}}, level \in {NoLevel, "error"},
          name \in CallNames :
        LET r == add(fn.checks, "warning", regex, level, 1, name)
        IN  fn' = [fn EXCEPT !.checks = r.checks, !.prev = fn.checks,
                      !.calls = @ + 1,
                      !.last = [op |-> "add", name |-> name,
                                raised |-> r.raised]]
    /\ UNCHANGED mainvars

\* checker.change(name, level=level)
CheckerChange ==
    /\ fn.spec = "checker"
    /\ fn.calls < MaxCalls
    /\ \E name \in CallNames \ {None}, level \in {NoLevel, "fatal"} :
        LET r == change(fn.checks, name, level)
        IN  fn' = [fn EXCEPT !.checks = r.checks, !.prev = fn.checks,
                      !.calls = @ + 1,
                      !.last = [op |-> "change", name |-> name,
                                raised |-> r.raised]]
    /\ UNCHANGED mainvars

NextChecker == CheckerAdd \/ CheckerChange

SpecChecker == InitChecker /\ [][NextChecker]_vars

----------------------------------------------------------------------------
(* ErrorChecker.search as a function of the table and the log. *)

MaxScanLen == 3

MaxCapture == 3

\* the logs of at most n lines
RECURSIVE ScanLogs(_)
ScanLogs(n) ==
    IF n = 0 THEN {<<>>}
    ELSE ScanLogs(n - 1)
         \cup {Append(l, x) : l \in {y \in ScanLogs(n - 1) : Len(y) = n - 1},
                              x \in {LnText, LnUcs, LnError, LnUndefRef}}

\* a table of three rules: LnError matches the first and the second, which
\* read w1 and w2 lines
ScanTable(w1, w2) ==
    addall(<<>>, "warning",
        << Rule({LnUcs, LnError}, "fatal", w1, None),
           Rule({LnError}, "error", w2, None),
           Rule({LnUndefRef}, NoLevel, 1, PyStr("undefref")) >>)

InitSearch ==
    /\ MainIdle
    /\ \E log \in ScanLogs(MaxScanLen), w1 \in 1..(MaxCapture - 1),
          w2 \in 1..MaxCapture :
        fn = [spec |-> "search", pc |-> "log", log |-> log,
              checks |-> ScanTable(w1, w2),
              messages |-> [l \in Levels |-> <<>>]]

\* messages = checker.search(logfile)
SearchLog ==
    /\ fn.spec = "search"
    /\ fn.pc = "log"
    /\ fn' = [fn EXCEPT !.pc = "searched",
                        !.messages = search(fn.checks, fn.log)]
    /\ UNCHANGED mainvars

NextSearch == SearchLog

SpecSearch == InitSearch /\ [][NextSearch]_vars

Searched == fn.spec = "search" /\ fn.pc = "searched"

\* the rules of the table the line at p matches
Matching(p) == {j \in 1..Len(fn.checks) : fn.log[p] \in fn.checks[j].v.regex}

\* the pairs of a line among P and a rule of level l the line matches
MatchesAt(P, l) ==
    {pj \in P \X (1..Len(fn.checks)) :
        pj[2] \in Matching(pj[1]) /\ fn.checks[pj[2]].v.level = l}

\* the lines the matches of the line at p read after it: the sum of
\* lines - 1 over the rules from j on that the line matches
RECURSIVE Context(_, _)
Context(p, j) ==
    IF j > Len(fn.checks) THEN 0
    ELSE (IF j \in Matching(p) THEN fn.checks[j].v.lines - 1 ELSE 0)
         + Context(p, j + 1)

\* the lines from p on that no match before them has read
RECURSIVE Reached(_)
Reached(p) ==
    IF p > Len(fn.log) THEN {}
    ELSE {p} \cup Reached(p + 1 + Context(p, 1))

\* C26 as stated: every line of the log is tested against every rule, the
\* lines a match has read after its line too, so a bucket has a block for
\* every line and rule of its level that match.
C26_Original ==
    Searched =>
        \A l \in Levels :
            Len(fn.messages[l]) = Cardinality(MatchesAt(1..Len(fn.log), l))

\* C26: the lines a match reads after its line (lines - 1 of them for each
\* rule the line matches) are not tested; every other line is tested
\* against every rule, and a bucket has a block for every such line and
\* rule of its level that match.
C26_ReachedLines ==
    Searched =>
        \A l \in Levels :
            Len(fn.messages[l]) = Cardinality(MatchesAt(Reached(1), l))

\* a line that matches a rule is read as the second line of a block
C26_Witness ==
    /\ Searched
    /\ fn.log = <<LnUcs, LnError, LnUndefRef>>
    /\ fn.checks[1].v.lines = 2
    /\ fn.messages["fatal"] = <<<<LnUcs, LnError>>>>
    /\ fn.messages["error"] = <<>>
    /\ Len(fn.messages["warning"]) = 1

\* n lines of the log from q on, and "" past its end
Padded(q, n) ==
    [i \in 1..n |-> IF q + i - 1 <= Len(fn.log) THEN fn.log[q + i - 1]
                    ELSE LnEmpty]

\* the lines of the log from q on, n at most
Following(q, n) ==
    [i \in 1..(IF Len(fn.log) - q + 1 < n THEN
                  (IF Len(fn.log) - q + 1 < 0 THEN 0 ELSE Len(fn.log) - q + 1)
               ELSE n) |-> fn.log[q + i - 1]]

\* s is t with elements left out
RECURSIVE IsSubseq(_, _)
IsSubseq(s, t) ==
    IF s = <<>> THEN TRUE
    ELSE IF t = <<>> THEN FALSE
    ELSE IF Head(s) = Head(t) THEN IsSubseq(Tail(s), Tail(t))
    ELSE IsSubseq(s, Tail(t))

\* the first lines of the blocks of a bucket are in the order of the log
InLogOrder(l) ==
    IsSubseq([b \in 1..Len(fn.messages[l]) |-> fn.messages[l][b][1]], fn.log)

\* C27 as stated: a block is the line that matches and the lines - 1 lines
\* after it, or as many as the log has; the blocks of a bucket are in the
\* order of the log.
C27_Original ==
    Searched =>
        \A l \in Levels :
            /\ InLogOrder(l)
            /\ \A b \in 1..Len(fn.messages[l]) :
                   \E pj \in MatchesAt(1..Len(fn.log), l) :
                       fn.messages[l][b] =
                           <<fn.log[pj[1]]>>
                           \o Following(pj[1] + 1, fn.checks[pj[2]].v.lines - 1)

\* C27: a block has the lines of its rule: the line that matches and
\* lines - 1 consecutive lines of the log, "" for each line past the end of
\* the log.  They are the lines after the line that matches when this line
\* matches one rule; when it matches more rules, those of a later rule begin
\* where an earlier rule has stopped reading.  The blocks of a bucket are in
\* the order of the log.
C27_PaddedBlocks ==
    Searched =>
        \A l \in Levels :
            /\ InLogOrder(l)
            /\ \A b \in 1..Len(fn.messages[l]) :
                   \E pj \in MatchesAt(1..Len(fn.log), l) :
                   \E q \in (pj[1] + 1)..(Len(fn.log) + 1) :
                       /\ Len(fn.messages[l][b]) = fn.checks[pj[2]].v.lines
                       /\ fn.messages[l][b] =
                              <<fn.log[pj[1]]>>
                              \o Padded(q, fn.checks[pj[2]].v.lines - 1)
                       /\ Cardinality(Matching(pj[1])) = 1 => q = pj[1] + 1

\* the log ends in a block, and a line matches two rules
C27_Witness ==
    /\ Searched
    /\ fn.log = <<LnError, LnText>>
    /\ fn.checks[1].v.lines = 2
    /\ fn.checks[2].v.lines = 3
    /\ fn.messages["fatal"] = <<<<LnError, LnText>>>>
    /\ fn.messages["error"] = <<<<LnError, LnEmpty, LnEmpty>>>>

----------------------------------------------------------------------------
(* CitationIndex.purify as a function of the name. *)

MaxNameLen == 3

\* the names of at most n tokens: text, braces, white space, control
\* sequences, other characters
RECURSIVE Names(_)
Names(n) ==
    IF n = 0 THEN {<<>>}
    ELSE Names(n - 1)
         \cup {Append(l, x) : l \in {y \in Names(n - 1) : Len(y) = n - 1},
                              x \in {"Doe", "2000", "{", "}", " ", "\\ss",
                                     "\\'", "~", "-"}}

InitPurify ==
    /\ MainIdle
    /\ \E name \in Names(MaxNameLen) :
        fn = [spec |-> "purify", pc |-> "name", name |-> name, key |-> <<>>]

\* key = self.purify(name)
PurifyCall ==
    /\ fn.spec = "purify"
    /\ fn.pc = "name"
    /\ \E addr \in Addresses :
        fn' = [fn EXCEPT !.pc = "purified", !.key = purify(fn.name, addr)]
    /\ UNCHANGED mainvars

NextPurify == PurifyCall

SpecPurify == InitPurify /\ [][NextPurify]_vars

\* C28: the key purify returns has upper case letters, digits and spaces
\* only, and is the name without the white space next to braces, with the
\* control sequences of the table replaced, the other control sequences
\* deleted, the characters that are no letter, digit or space left out, in
\* upper case.
C28_PurifiedKey ==
    (fn.spec = "purify" /\ fn.pc = "purified") =>
        /\ \A k \in 1..Len(fn.key) : fn.key[k] \in {Upper(t) : t \in keeptext}
        /\ fn.key = upper(SelectSeq(tokensub(replaceall(nobracespace(fn.name), 1)),
                                    keep))

====
